---- MODULE Spec2Model ----
(***************************************************************************)
(* Oculo ingestion daemon: the SQLite-backed store (database package) and  *)
(* the DaemonIngester (ingestion package) with its connection tasks, its   *)
(* three buffered channels, its single flush loop, crash-recovery replay   *)
(* and shutdown.                                                           *)
(***************************************************************************)
EXTENDS Integers, Sequences, FiniteSets, TLC

(***************************************************************************)
(* Bounds of the model.                                                    *)
(***************************************************************************)
MaxBatchSize == 2
MaxMsgs == 3
MaxBatchMsgs == 2
MaxPending == 2
NumConns == 1
NumClients == 2
MaxCalls == 3
MaxLogCalls == 4
MaxTraceCalls == 2
MaxPoints == 3
MaxTreeSpans == 3

(***************************************************************************)
(* Wire protocol message types.                                            *)
(***************************************************************************)
MsgTrace == 1
MsgSpan == 2
MsgMemoryEvent == 3
MsgBatch == 4
WireTypes == 0 .. 5

(***************************************************************************)
(* Values of the closed enums of the schema (CHECK constraints); "bogus"   *)
(* stands for any value outside an enum.                                   *)
(***************************************************************************)
TraceStatuses == {"running", "completed", "failed"}
OperationTypes == {"LLM", "TOOL", "MEMORY", "PLANNING", "RETRIEVAL"}
SpanStatuses == {"ok", "error"}
MemoryOperations == {"ADD", "UPDATE", "DELETE"}
PendingStatuses == {"pending", "committed", "failed"}

TraceIds == {"t1", "t2", "t3"}
WireTraceIds == {"t1"}
SpanIds == {"s1", "s2"}
EventIds == {"e1", "e2", "e3"}
WireEventIds == {"e1", "e2"}

NoRow == [absent |-> TRUE]
Corrupt == [corrupt |-> TRUE]

(***************************************************************************)
(* Column values.  A nullable column (a Go pointer or map) holds Null or    *)
(* Some(v).  The other columns of a row are filled from a version tag, "a"  *)
(* or "b", so that two rows of different versions differ in every column.   *)
(***************************************************************************)
Null == << >>
Some(v) == <<v>>
\* COALESCE(excluded.c, t.c)
Coalesce(new, old) == IF new # Null THEN new ELSE old

Versions == {"a", "b"}
Stamp(v) == IF v = "a" THEN 1 ELSE IF v = "b" THEN 2 ELSE 3

(***************************************************************************)
(* The rows producers send.                                                *)
(***************************************************************************)
\* database.Trace with every column.
TraceAt(id, agent, start, end, st, md) ==
    [trace_id |-> id, agent_name |-> agent, start_time |-> start, end_time |-> end,
     status |-> st, metadata |-> md]

TraceRow(id, v, end, st, md) == TraceAt(id, v, Stamp(v), end, st, md)

\* database.Span with every column; v fills the columns the upsert keeps, w
\* those it overwrites.
SpanRow(id, tr, op, v, w, completion, st) ==
    [span_id |-> id, trace_id |-> tr, parent_span_id |-> Null, operation_type |-> op,
     operation_name |-> v, start_time |-> Stamp(v), duration_ms |-> Stamp(w),
     prompt |-> Some(v), completion |-> completion, prompt_tokens |-> Stamp(v),
     completion_tokens |-> Stamp(w), model |-> Some(v), temperature |-> Some(Stamp(v)),
     metadata |-> Some(v), status |-> st,
     error_message |-> IF st = "error" THEN Some(w) ELSE Null]

\* database.MemoryEvent with every column.
MemoryEventAt(id, sp, v, op, old, new) ==
    [event_id |-> id, span_id |-> sp, timestamp |-> Stamp(v), operation |-> op, key |-> "k",
     old_value |-> old, new_value |-> new, namespace |-> "default"]

MemoryEventRow(id, sp, op, old, new) == MemoryEventAt(id, sp, "a", op, old, new)

Trace(id, st) == TraceRow(id, "a", Null, st, Null)
Span(id, tr, op) == SpanRow(id, tr, op, "a", "a", Null, "ok")
MemoryEvent(id, sp, op) == MemoryEventRow(id, sp, op, Null, Some("v"))
ToolCall(sp) == [span_id |-> sp, tool_name |-> "search"]

Traces == {Trace(id, st) : id \in WireTraceIds, st \in {"running", "bogus"}}
Spans == {Span(id, tr, op) : id \in SpanIds, tr \in WireTraceIds, op \in {"LLM", "bogus"}}
MemoryEvents == {MemoryEvent(id, "s1", op) : id \in WireEventIds, op \in {"ADD", "bogus"}}
ToolCalls == {ToolCall(sp) : sp \in SpanIds}

BatchMessage(ts, ss, ms, cs) ==
    [traces |-> ts, spans |-> ss, memory_events |-> ms, tool_calls |-> cs]

(***************************************************************************)
(* The store: one record holding the five tables.                          *)
(***************************************************************************)
EmptyStore ==
    [traces |-> [t \in TraceIds |-> NoRow],
     spans |-> [s \in SpanIds |-> NoRow],
     spans_fts |-> [s \in SpanIds |-> NoRow],
     memory_events |-> [e \in EventIds |-> NoRow],
     tool_calls |-> << >>,
     pending_writes |-> << >>]

HasTrace(db, id) == id \in DOMAIN db.traces /\ db.traces[id] # NoRow
HasSpan(db, id) == id \in SpanIds /\ db.spans[id] # NoRow
HasEvent(db, id) == id \in EventIds /\ db.memory_events[id] # NoRow

StoredTraces(db) == {t \in DOMAIN db.traces : HasTrace(db, t)}
StoredSpans(db) == {s \in SpanIds : HasSpan(db, s)}
StoredEvents(db) == {e \in EventIds : HasEvent(db, e)}

Ok(db) == [store |-> db, err |-> FALSE]
Fail(db) == [store |-> db, err |-> TRUE]

\* Mutant: INSERT OR REPLACE, the new row replaces the stored one.
InsertTraceReplaces(db, t) ==
    IF t.status \notin TraceStatuses THEN Fail(db)
    ELSE Ok([db EXCEPT !.traces[t.trace_id] = t])

\* INSERT INTO traces ... ON CONFLICT(trace_id) DO UPDATE SET
\*     end_time = COALESCE(excluded.end_time, traces.end_time),
\*     status = excluded.status,
\*     metadata = COALESCE(excluded.metadata, traces.metadata)
\* The CHECK on the new row is evaluated before the conflict is looked at.
InsertTrace(db, t) ==
    IF t.status \notin TraceStatuses THEN Fail(db)
    ELSE IF HasTrace(db, t.trace_id)
         THEN Ok([db EXCEPT !.traces[t.trace_id] =
                      [@ EXCEPT !.end_time = Coalesce(t.end_time, @),
                                !.status = t.status,
                                !.metadata = Coalesce(t.metadata, @)]])
         ELSE Ok([db EXCEPT !.traces[t.trace_id] = t])

\* The row of spans_fts for a span: span_id is UNINDEXED, the other three
\* columns are indexed.
FtsRow(s) ==
    [span_id |-> s.span_id, prompt |-> s.prompt, completion |-> s.completion,
     operation_name |-> s.operation_name]

\* Trigger spans_ai, AFTER INSERT ON spans.
SpansAI(db, new) == [db EXCEPT !.spans_fts[new.span_id] = FtsRow(new)]

\* Trigger spans_ad, AFTER DELETE ON spans.
SpansAD(db, old) == [db EXCEPT !.spans_fts[old.span_id] = NoRow]

\* Mutant: no trigger on UPDATE.
SpansAUMissing(db, old, new) == db

\* Trigger spans_au, AFTER UPDATE ON spans: delete the old entry, insert the new.
SpansAU(db, old, new) == SpansAI(SpansAD(db, old), new)

\* Mutant: INSERT OR REPLACE, the new row replaces the stored one.
InsertSpanReplaces(db, s) ==
    IF s.operation_type \notin OperationTypes \/ s.status \notin SpanStatuses THEN Fail(db)
    ELSE IF ~HasTrace(db, s.trace_id) THEN Fail(db)
    ELSE Ok(SpansAI([db EXCEPT !.spans[s.span_id] = s], s))

\* INSERT INTO spans ... ON CONFLICT(span_id) DO UPDATE SET
\*     duration_ms = excluded.duration_ms,
\*     completion = COALESCE(excluded.completion, spans.completion),
\*     completion_tokens = excluded.completion_tokens,
\*     status = excluded.status,
\*     error_message = excluded.error_message
\* The update leaves trace_id alone, so no parent is looked up on a conflict.
InsertSpan(db, s) ==
    IF s.operation_type \notin OperationTypes \/ s.status \notin SpanStatuses THEN Fail(db)
    ELSE IF HasSpan(db, s.span_id)
         THEN LET new == [db.spans[s.span_id] EXCEPT
                             !.duration_ms = s.duration_ms,
                             !.completion = Coalesce(s.completion, @),
                             !.completion_tokens = s.completion_tokens,
                             !.status = s.status,
                             !.error_message = s.error_message]
              IN Ok(SpansAU([db EXCEPT !.spans[s.span_id] = new], db.spans[s.span_id], new))
    ELSE IF ~HasTrace(db, s.trace_id) THEN Fail(db)
    ELSE Ok(SpansAI([db EXCEPT !.spans[s.span_id] = s], s))

\* Mutant: INSERT OR REPLACE, a stored event of the same id is replaced.
InsertMemoryEventReplaces(db, e) ==
    IF e.operation \notin MemoryOperations THEN Fail(db)
    ELSE IF ~HasSpan(db, e.span_id) THEN Fail(db)
    ELSE Ok([db EXCEPT !.memory_events[e.event_id] = e])

\* INSERT INTO memory_events: no upsert, event_id is the primary key.
InsertMemoryEvent(db, e) ==
    IF e.operation \notin MemoryOperations THEN Fail(db)
    ELSE IF HasEvent(db, e.event_id) THEN Fail(db)
    ELSE IF ~HasSpan(db, e.span_id) THEN Fail(db)
    ELSE Ok([db EXCEPT !.memory_events[e.event_id] = e])

\* INSERT INTO tool_calls: call_id is the next autoincrement value.
InsertToolCall(db, c) ==
    IF ~HasSpan(db, c.span_id) THEN Fail(db)
    ELSE Ok([db EXCEPT !.tool_calls = Append(@, c)])

\* Mutant: the loop goes through the list from its last element to its first.
RECURSIVE TxSpansBackwards(_, _)
TxSpansBackwards(db, spans) ==
    IF spans = << >> THEN Ok(db)
    ELSE LET r == InsertSpan(db, spans[Len(spans)]) IN
         IF r.err THEN r ELSE TxSpansBackwards(r.store, SubSeq(spans, 1, Len(spans) - 1))

\* The loop of the transaction over the spans; r, the result of one insert, is
\* bound once.
RECURSIVE TxSpans(_, _)
TxSpans(db, spans) ==
    IF spans = << >> THEN Ok(db)
    ELSE CHOOSE out \in {IF r.err THEN r ELSE TxSpans(r.store, Tail(spans)) :
                             r \in {InsertSpan(db, Head(spans))}} : TRUE

\* Mutant: the loop over the list stops after its first element.
BatchInsertSpansFirstOnly(db, spans) ==
    IF spans = << >> THEN Ok(db) ELSE InsertSpan(db, Head(spans))

\* One transaction: the deferred Rollback undoes every row on an error.
BatchInsertSpans(db, spans) ==
    LET r == TxSpans(db, spans) IN
    IF r.err THEN Fail(db) ELSE r

\* The loop of the transaction over the memory events; r is bound once.
RECURSIVE TxMemoryEvents(_, _)
TxMemoryEvents(db, events) ==
    IF events = << >> THEN Ok(db)
    ELSE CHOOSE out \in {IF r.err THEN r ELSE TxMemoryEvents(r.store, Tail(events)) :
                             r \in {InsertMemoryEvent(db, Head(events))}} : TRUE

\* Mutant: no rollback, the rows inserted before the failing one stay.
BatchInsertMemoryEventsNoRollback(db, events) == TxMemoryEvents(db, events)

BatchInsertMemoryEvents(db, events) ==
    LET r == TxMemoryEvents(db, events) IN
    IF r.err THEN Fail(db) ELSE r

\* INSERT INTO pending_writes (payload, status) VALUES (?, 'pending')
WritePendingPayload(db, payload) ==
    [db EXCEPT !.pending_writes = Append(@, [payload |-> payload, status |-> "pending"])]

\* Mutant: the UPDATE matches no row.
CommitPendingPayloadNoRow(db, writeID) == db

\* UPDATE pending_writes SET status = 'committed' WHERE write_id = ?
CommitPendingPayload(db, writeID) ==
    IF writeID \in DOMAIN db.pending_writes
    THEN [db EXCEPT !.pending_writes[writeID].status = "committed"]
    ELSE db

RECURSIVE PendingFrom(_, _)
PendingFrom(db, id) ==
    IF id > Len(db.pending_writes) THEN << >>
    ELSE IF db.pending_writes[id].status = "pending"
         THEN <<[WriteID |-> id, Payload |-> db.pending_writes[id].payload]>>
              \o PendingFrom(db, id + 1)
         ELSE PendingFrom(db, id + 1)

\* Mutant: the SELECT has no WHERE status = 'pending'.
GetPendingPayloadsAnyStatus(db) ==
    [id \in DOMAIN db.pending_writes |->
        [WriteID |-> id, Payload |-> db.pending_writes[id].payload]]

\* SELECT ... FROM pending_writes WHERE status = 'pending' ORDER BY write_id ASC
GetPendingPayloads(db) == PendingFrom(db, 1)

\* Mutant: the foreign keys have no ON DELETE CASCADE (and are not enforced).
DeleteTraceNoCascade(db, id) ==
    [db EXCEPT !.traces = [t \in DOMAIN db.traces |-> IF t = id THEN NoRow ELSE @[t]]]

\* DELETE FROM traces WHERE trace_id = ?, under the schema's ON DELETE CASCADE
\* clauses: the trace's spans go with it, and their memory events and tool calls.
DeleteTrace(db, id) ==
    LET gone == {sp \in SpanIds : HasSpan(db, sp) /\ db.spans[sp].trace_id = id} IN
    [db EXCEPT
        !.traces = [t \in DOMAIN db.traces |-> IF t = id THEN NoRow ELSE @[t]],
        !.spans = [sp \in SpanIds |-> IF sp \in gone THEN NoRow ELSE @[sp]],
        !.spans_fts = [sp \in SpanIds |-> IF sp \in gone THEN SpansAD(db, db.spans[sp]).spans_fts[sp]
                                          ELSE @[sp]],
        !.memory_events = [e \in EventIds |->
                              IF HasEvent(db, e) /\ @[e].span_id \in gone THEN NoRow ELSE @[e]],
        !.tool_calls = SelectSeq(@, LAMBDA c : c.span_id \notin gone)]

\* Mutant: the SELECT has no ORDER BY.
OrderByNothing(rows, col) == rows

\* The rows of a sequence in ascending order of column col, rows of equal value
\* in the order of the sequence.
OrderBy(rows, col) ==
    LET pos == << >> \o [i \in DOMAIN rows |->
                      Cardinality({j \in DOMAIN rows :
                                      \/ rows[j][col] < rows[i][col]
                                      \/ rows[j][col] = rows[i][col] /\ j <= i})]
    IN [p \in DOMAIN rows |-> rows[CHOOSE i \in DOMAIN rows : pos[i] = p]]

\* The rows of a table whose key is in ids, in the order of the keys.
RowsOf(table, keys, ids) ==
    SelectSeq([k \in DOMAIN keys |-> IF keys[k] \in ids THEN table[keys[k]] ELSE NoRow],
              LAMBDA r : r # NoRow)

SpanKeys == <<"s1", "s2">>
EventKeys == <<"e1", "e2", "e3">>

\* SELECT ... FROM spans WHERE trace_id = ? ORDER BY start_time ASC
QueryTimeline(db, traceID) ==
    OrderBy(RowsOf(db.spans, SpanKeys,
                   {id \in SpanIds : HasSpan(db, id) /\ db.spans[id].trace_id = traceID}),
            "start_time")

\* SELECT ... FROM memory_events WHERE span_id = ? ORDER BY timestamp ASC
GetMemoryDiffs(db, spanID) ==
    OrderBy(RowsOf(db.memory_events, EventKeys,
                   {id \in EventIds :
                       HasEvent(db, id) /\ db.memory_events[id].span_id = spanID}),
            "timestamp")

\* The terms of an entry of the full-text index: each indexed column holds one.
Terms(f) ==
    {f.operation_name}
    \cup (IF f.prompt # Null THEN {f.prompt[1]} ELSE {})
    \cup (IF f.completion # Null THEN {f.completion[1]} ELSE {})

DefaultSearchLimit == 20

\* The ways of listing the rows of spans with the given ids.
Orders(db, ids) ==
    {[k \in 1 .. Cardinality(ids) |-> db.spans[o[k]]] :
        o \in {o \in [1 .. Cardinality(ids) -> ids] :
                  \A j, k \in 1 .. Cardinality(ids) : j # k => o[j] # o[k]}}

\* SELECT s.* FROM spans s INNER JOIN spans_fts f ON s.span_id = f.span_id
\* WHERE spans_fts MATCH ? ORDER BY rank LIMIT ?
\* The results the query may give: the rank is not modelled, every order is one.
SearchContent(db, query, limit) ==
    LET n == IF limit <= 0 THEN DefaultSearchLimit ELSE limit
        hits == {id \in SpanIds :
                    /\ db.spans_fts[id] # NoRow
                    /\ query \in Terms(db.spans_fts[id])
                    /\ HasSpan(db, id)
                    /\ db.spans[id].span_id = db.spans_fts[id].span_id}
    IN {SubSeq(rows, 1, IF Len(rows) < n THEN Len(rows) ELSE n) : rows \in Orders(db, hits)}

\* The rows of a sequence in descending order of column col, rows of equal value
\* in the order of the sequence.
OrderByDesc(rows, col) ==
    LET pos == << >> \o [i \in DOMAIN rows |->
                      Cardinality({j \in DOMAIN rows :
                                      \/ rows[j][col] > rows[i][col]
                                      \/ rows[j][col] = rows[i][col] /\ j <= i})]
    IN [p \in DOMAIN rows |-> rows[CHOOSE i \in DOMAIN rows : pos[i] = p]]

\* The keys of the traces table: the ids of TraceIds and those of a long table.
DefaultLimit == 100
LongKeys == [i \in 1 .. DefaultLimit + 1 |-> "n" \o ToString(i)]
TraceKeys == <<"t1", "t2", "t3">> \o LongKeys

\* database.TraceFilter
TraceFilter(agent, status, since, until, limit, offset) ==
    [AgentName |-> agent, Status |-> status, Since |-> since, Until |-> until,
     Limit |-> limit, Offset |-> offset]

\* The WHERE clause QueryTraces builds: one AND per filter field that is not nil.
Where(t, filter) ==
    /\ filter.AgentName # Null => t.agent_name = filter.AgentName[1]
    /\ filter.Status # Null => t.status = filter.Status[1]
    /\ filter.Since # Null => t.start_time >= filter.Since[1]
    /\ filter.Until # Null => t.start_time <= filter.Until[1]

\* Mutant: LIMIT ? with the filter's limit whatever it is.
LimitOfAsGiven(filter) == filter.Limit

\* LIMIT ? when filter.Limit > 0, else LIMIT 100
LimitOf(filter) == IF filter.Limit > 0 THEN filter.Limit ELSE DefaultLimit

\* OFFSET ? when filter.Offset > 0
OffsetOf(filter) == IF filter.Offset > 0 THEN filter.Offset ELSE 0

\* SELECT ... FROM traces WHERE 1=1 [AND ...] ORDER BY start_time DESC LIMIT ? [OFFSET ?]
QueryTraces(db, filter) ==
    LET sorted == OrderByDesc(RowsOf(db.traces, TraceKeys,
                                     {id \in DOMAIN db.traces :
                                         HasTrace(db, id) /\ Where(db.traces[id], filter)}),
                              "start_time")
        last == IF Len(sorted) < OffsetOf(filter) + LimitOf(filter)
                THEN Len(sorted) ELSE OffsetOf(filter) + LimitOf(filter)
    IN SubSeq(sorted, OffsetOf(filter) + 1, last)

\* SELECT ... FROM memory_events WHERE key = ? AND namespace = ? ORDER BY timestamp ASC
GetMemoryTimeline(db, key, namespace) ==
    OrderBy(RowsOf(db.memory_events, EventKeys,
                   {id \in EventIds :
                       /\ HasEvent(db, id)
                       /\ db.memory_events[id].key = key
                       /\ db.memory_events[id].namespace = namespace}),
            "timestamp")

(***************************************************************************)
(* The ingester.                                                           *)
(***************************************************************************)
VARIABLES
    store,            \* DaemonIngester.store: the DBService tables
    config,           \* DaemonIngester.config
    phase,            \* "new", "replay", "running", "stopping", "stopped", "panicked"
    ctxDone,          \* the context of Start has been cancelled
    chansClosed,      \* Stop has closed the three channels
    traceChan, spanChan, memoryEventChan,
    spanBuf, memBuf,  \* the flush loop's buffers
    flushLoop,        \* "idle", "running", "done"
    acceptLoop,       \* "idle", "running", "done"
    metrics,          \* DaemonIngester.metrics
    conn,             \* per connection task: position and the batch in progress
    replay,           \* replayPending: the pending list, the index, the batch in progress
    budget,           \* wire messages (or store calls) the environment may still issue
    accepted,         \* history: the single items processMessage decoded
    commits,          \* history: rows committed by successful store calls of this run
    writes,           \* history: which task called which store write, and from where
    last,             \* history: per task, the outcome of its last processBatch call
    replayed,         \* history: the write ids replayPending went through, in order
    mu,               \* DBService.mu: the task holding the write lock, the read-lock holders
    client,           \* per task using the store API directly: position, transaction, rows read
    call              \* history: the last call of the store API, the store before it, its result

vars == <<store, config, phase, ctxDone, chansClosed, traceChan, spanChan,
          memoryEventChan, spanBuf, memBuf, flushLoop, acceptLoop, metrics, conn,
          replay, budget, accepted, commits, writes, last, replayed, mu, client, call>>

Conns == 1 .. NumConns

\* The tasks that write to the store: Start (replay), the flush loop, and the
\* connection tasks, named by their number.
StartTask == [kind |-> "start", n |-> 0]
FlushTask == [kind |-> "flush", n |-> 0]
ConnTask(c) == [kind |-> "conn", n |-> c]

\* NewDaemonIngester: channel capacities.
SpanChanCap == config.BatchSize * 2
MemoryEventChanCap == config.BatchSize * 2
TraceChanCap == config.BatchSize

ZeroMetrics ==
    [TracesIngested |-> 0, SpansIngested |-> 0, MemoryEvents |-> 0,
     ErrorCount |-> 0, BatchesCommitted |-> 0]

Inc(mt, counter, n) == [mt EXCEPT ![counter] = @ + n]

NoBatch == [stage |-> "none"]

\* A connection task not yet accepted: no frame read (len is the declared length
\* of the last header read), no byte written.
NoConn == [pc |-> "unborn", bp |-> NoBatch, read |-> 0, acks |-> << >>, len |-> Null]
BatchStages == {"traces", "spans", "mems", "tools", "commit"}

\* json.Unmarshal of a payload into the Go value of its message type.
Decode(payload) ==
    IF payload = Corrupt THEN [err |-> TRUE] ELSE [err |-> FALSE, value |-> payload]

(***************************************************************************)
(* processBatch, one store call (or the final counter update) per step.    *)
(***************************************************************************)
AfterMems(b) == IF Len(b.tool_calls) > 0 THEN "tools" ELSE "commit"
AfterSpans(b) == IF Len(b.memory_events) > 0 THEN "mems" ELSE AfterMems(b)
\* Mutant: memory events are inserted before spans are.
AfterTracesSkipsSpans(b) == AfterSpans(b)

AfterTraces(b) == IF Len(b.spans) > 0 THEN "spans" ELSE AfterSpans(b)
FirstStage(b) == IF Len(b.traces) > 0 THEN "traces" ELSE AfterTraces(b)

StepResult(db, mt, stage, i) == [store |-> db, metrics |-> mt, stage |-> stage, i |-> i]

ProcessBatchStep(db, mt, b, stage, i) ==
    CASE stage = "traces" ->
            LET r == InsertTrace(db, b.traces[i]) IN
            IF r.err THEN StepResult(r.store, mt, "err", i)
            ELSE IF i < Len(b.traces)
                 THEN StepResult(r.store, Inc(mt, "TracesIngested", 1), "traces", i + 1)
                 ELSE StepResult(r.store, Inc(mt, "TracesIngested", 1), AfterTraces(b), 1)
      [] stage = "spans" ->
            LET r == BatchInsertSpans(db, b.spans) IN
            IF r.err THEN StepResult(r.store, mt, "err", i)
            ELSE StepResult(r.store, Inc(mt, "SpansIngested", Len(b.spans)), AfterSpans(b), 1)
      [] stage = "mems" ->
            LET r == BatchInsertMemoryEvents(db, b.memory_events) IN
            IF r.err THEN StepResult(r.store, mt, "err", i)
            ELSE StepResult(r.store, Inc(mt, "MemoryEvents", Len(b.memory_events)),
                            AfterMems(b), 1)
      [] stage = "tools" ->
            LET r == InsertToolCall(db, b.tool_calls[i]) IN
            IF r.err THEN StepResult(r.store, mt, "err", i)
            ELSE IF i < Len(b.tool_calls)
                 THEN StepResult(r.store, mt, "tools", i + 1)
                 ELSE StepResult(r.store, mt, "commit", 1)
      [] stage = "commit" ->
            StepResult(db, Inc(mt, "BatchesCommitted", 1), "ok", i)

(***************************************************************************)
(* A processBatch call in progress, with what it has done so far.          *)
(***************************************************************************)
RefsTrace(db, b, id) == HasTrace(db, id) \/ \E k \in DOMAIN b.traces : b.traces[k].trace_id = id
RefsSpan(db, b, id) == HasSpan(db, id) \/ \E k \in DOMAIN b.spans : b.spans[k].span_id = id

\* Every row of the batch has values inside the enums and a parent that is either
\* stored or earlier in the batch.
WellFormed(db, b) ==
    /\ \A k \in DOMAIN b.traces : b.traces[k].status \in TraceStatuses
    /\ \A k \in DOMAIN b.spans :
          /\ b.spans[k].operation_type \in OperationTypes
          /\ RefsTrace(db, b, b.spans[k].trace_id)
    /\ \A k \in DOMAIN b.memory_events :
          /\ b.memory_events[k].operation \in MemoryOperations
          /\ RefsSpan(db, b, b.memory_events[k].span_id)
    /\ \A k \in DOMAIN b.tool_calls : RefsSpan(db, b, b.tool_calls[k].span_id)

\* No id of the list about to be inserted collides with a stored row or with
\* another element of the list.
FreshAt(db, b, stage) ==
    CASE stage = "spans" ->
            /\ \A k \in DOMAIN b.spans : ~HasSpan(db, b.spans[k].span_id)
            /\ \A j, k \in DOMAIN b.spans : j # k => b.spans[j].span_id # b.spans[k].span_id
      [] stage = "mems" ->
            /\ \A k \in DOMAIN b.memory_events : ~HasEvent(db, b.memory_events[k].event_id)
            /\ \A j, k \in DOMAIN b.memory_events :
                  j # k => b.memory_events[j].event_id # b.memory_events[k].event_id
      [] OTHER -> TRUE

ZeroDelta == [spans |-> 0, memory_events |-> 0, SpansIngested |-> 0, MemoryEvents |-> 0,
              BatchesCommitted |-> 0]

BeginBatch(db, b) ==
    [stage |-> FirstStage(b), batch |-> b, i |-> 1, wf |-> WellFormed(db, b),
     fresh |-> TRUE, done |-> << >>, d |-> ZeroDelta]

Rows(db) == [spans |-> Cardinality(StoredSpans(db)),
             memory_events |-> Cardinality(StoredEvents(db))]

AdvanceBatch(db, mt, bp) ==
    LET r == ProcessBatchStep(db, mt, bp.batch, bp.stage, bp.i) IN
    [store |-> r.store,
     metrics |-> r.metrics,
     bp |-> [bp EXCEPT
               !.stage = r.stage,
               !.i = r.i,
               !.fresh = @ /\ FreshAt(db, bp.batch, bp.stage),
               !.done = IF r.stage = "err" THEN @ ELSE Append(@, <<bp.stage, bp.i>>),
               !.d = [spans |-> @.spans + Rows(r.store).spans - Rows(db).spans,
                      memory_events |-> @.memory_events + Rows(r.store).memory_events
                                           - Rows(db).memory_events,
                      SpansIngested |-> @.SpansIngested + r.metrics.SpansIngested
                                           - mt.SpansIngested,
                      MemoryEvents |-> @.MemoryEvents + r.metrics.MemoryEvents
                                           - mt.MemoryEvents,
                      BatchesCommitted |-> @.BatchesCommitted + r.metrics.BatchesCommitted
                                           - mt.BatchesCommitted]]]

Returned(bp) == bp.stage \in {"ok", "err"}

\* The store write a processBatch step performs.
StoreCall(stage) ==
    CASE stage = "traces" -> "InsertTrace"
      [] stage = "spans" -> "BatchInsertSpans"
      [] stage = "mems" -> "BatchInsertMemoryEvents"
      [] stage = "tools" -> "InsertToolCall"
      [] OTHER -> "none"

Wrote(task, stage) ==
    IF StoreCall(stage) = "none" THEN {}
    ELSE {[task |-> task, op |-> StoreCall(stage), via |-> "processBatch"]}

\* Rows committed by a successful processBatch step.
Committed(c, b, stage, ok) ==
    IF ~ok THEN c
    ELSE CASE stage = "traces" -> [c EXCEPT !.traces = @ + 1]
           [] stage = "spans" -> [c EXCEPT !.spans = @ + Len(b.spans)]
           [] stage = "mems" -> [c EXCEPT !.memory_events = @ + Len(b.memory_events)]
           [] OTHER -> c

(***************************************************************************)
(* Tasks calling the store API directly, and DBService.mu.                 *)
(***************************************************************************)
Clients == 1 .. NumClients

\* sync.RWMutex: w is the task holding the write lock (0: none), r the set of
\* tasks holding the read lock.
Unlocked == [w |-> 0, r |-> {}]
Idle == [pc |-> "idle", op |-> "none"]
NoCall == [op |-> "none"]

(***************************************************************************)
(* Initial state: NewDBService on a fresh file, NewDaemonIngester.         *)
(***************************************************************************)
Tasks == {StartTask} \cup {ConnTask(c) : c \in Conns}

\* The daemon before Start, on a store holding db, with n wire messages to come.
Constructed(db, n) ==
    /\ store = db
    /\ config \in [BatchSize : 1 .. MaxBatchSize]
    /\ phase = "new"
    /\ ctxDone = FALSE
    /\ chansClosed = FALSE
    /\ traceChan = << >>
    /\ spanChan = << >>
    /\ memoryEventChan = << >>
    /\ spanBuf = << >>
    /\ memBuf = << >>
    /\ flushLoop = "idle"
    /\ acceptLoop = "idle"
    /\ metrics = ZeroMetrics
    /\ conn = [c \in Conns |-> NoConn]
    /\ replay = [list |-> << >>, idx |-> 1, bp |-> NoBatch]
    /\ budget = n
    /\ accepted = {}
    /\ commits = [traces |-> 0, spans |-> 0, memory_events |-> 0]
    /\ writes = {}
    /\ last = [t \in Tasks |-> NoBatch]
    /\ replayed = << >>
    /\ mu = Unlocked
    /\ client = [c \in Clients |-> Idle]
    /\ call = NoCall

Init == Constructed(EmptyStore, MaxMsgs)

(***************************************************************************)
(* Start and replayPending.                                                *)
(***************************************************************************)
\* A writer of the pending-write log (the store API) before the daemon starts.
WritePending(payload) ==
    /\ phase = "new"
    /\ Len(store.pending_writes) < MaxPending
    /\ store' = WritePendingPayload(store, payload)
    /\ UNCHANGED <<config, phase, ctxDone, chansClosed, traceChan, spanChan,
                   memoryEventChan, spanBuf, memBuf, flushLoop, acceptLoop, metrics,
                   conn, replay, budget, accepted, commits, writes, last, replayed>>
    /\ UNCHANGED <<call, mu, client>>

\* Start calls replayPending, which reads the pending list once.
StartBegin ==
    /\ phase = "new"
    /\ phase' = "replay"
    /\ replay' = [list |-> GetPendingPayloads(store), idx |-> 1, bp |-> NoBatch]
    /\ UNCHANGED <<store, config, ctxDone, chansClosed, traceChan, spanChan,
                   memoryEventChan, spanBuf, memBuf, flushLoop, acceptLoop, metrics,
                   conn, budget, accepted, commits, writes, last, replayed>>
    /\ UNCHANGED <<call, mu, client>>

\* Mutant: a failing payload ends the loop (return instead of continue).
NextPendingIndexAborts(idx, n, failed) == IF failed THEN n + 1 ELSE idx + 1

\* The loop of replayPending goes on with the next payload, whether the current
\* one failed (continue) or not.
NextPendingIndex(idx, n, failed) == idx + 1

\* One payload of the loop: json.Unmarshal into a BatchMessage.
ReplayDecode ==
    /\ phase = "replay"
    /\ replay.bp = NoBatch
    /\ replay.idx <= Len(replay.list)
    /\ LET pw == replay.list[replay.idx]
           dec == Decode(pw.Payload) IN
       IF dec.err
       THEN /\ replay' = [replay EXCEPT
                            !.idx = NextPendingIndex(@, Len(replay.list), TRUE)]
            /\ replayed' = Append(replayed, [id |-> pw.WriteID, ok |-> FALSE])
       ELSE /\ replay' = [replay EXCEPT !.bp = BeginBatch(store, dec.value)]
            /\ UNCHANGED replayed
    /\ UNCHANGED <<store, config, phase, ctxDone, chansClosed, traceChan, spanChan,
                   memoryEventChan, spanBuf, memBuf, flushLoop, acceptLoop, metrics,
                   conn, budget, accepted, commits, writes, last>>
    /\ UNCHANGED <<call, mu, client>>

\* One step of processBatch inside replayPending; when it returns nil the
\* payload is marked committed.
ReplayBatchStep ==
    /\ phase = "replay"
    /\ replay.bp # NoBatch
    /\ LET pw == replay.list[replay.idx]
           r == AdvanceBatch(store, metrics, replay.bp) IN
       /\ metrics' = r.metrics
       /\ writes' = writes \cup Wrote(StartTask, replay.bp.stage)
       /\ commits' = Committed(commits, replay.bp.batch, replay.bp.stage, r.bp.stage # "err")
       /\ IF Returned(r.bp)
          THEN /\ store' = IF r.bp.stage = "ok"
                           THEN CommitPendingPayload(r.store, pw.WriteID)
                           ELSE r.store
               /\ replay' = [replay EXCEPT
                               !.bp = NoBatch,
                               !.idx = NextPendingIndex(@, Len(replay.list),
                                                        r.bp.stage = "err")]
               /\ last' = [last EXCEPT ![StartTask] = r.bp]
               /\ replayed' = Append(replayed, [id |-> pw.WriteID, ok |-> r.bp.stage = "ok"])
          ELSE /\ store' = r.store
               /\ replay' = [replay EXCEPT !.bp = r.bp]
               /\ UNCHANGED <<last, replayed>>
    /\ UNCHANGED <<config, phase, ctxDone, chansClosed, traceChan, spanChan,
                   memoryEventChan, spanBuf, memBuf, flushLoop, acceptLoop, conn,
                   budget, accepted>>
    /\ UNCHANGED <<call, mu, client>>

\* Mutant: Start opens the listener without waiting for replayPending.
StartListenDuringReplay ==
    /\ phase = "replay"
    /\ phase' = "running"
    /\ flushLoop' = "running"
    /\ acceptLoop' = "running"
    /\ UNCHANGED <<store, config, ctxDone, chansClosed, traceChan, spanChan,
                   memoryEventChan, spanBuf, memBuf, metrics, conn, replay, budget,
                   accepted, commits, writes, last, replayed>>
    /\ UNCHANGED <<call, mu, client>>

\* The rest of Start: net.Listen, then the flush loop and the accept loop.
StartListen ==
    /\ phase = "replay"
    /\ replay.bp = NoBatch
    /\ replay.idx > Len(replay.list)
    /\ phase' = "running"
    /\ flushLoop' = "running"
    /\ acceptLoop' = "running"
    /\ UNCHANGED <<store, config, ctxDone, chansClosed, traceChan, spanChan,
                   memoryEventChan, spanBuf, memBuf, metrics, conn, replay, budget,
                   accepted, commits, writes, last, replayed>>
    /\ UNCHANGED <<call, mu, client>>

(***************************************************************************)
(* acceptLoop and handleConnection.                                        *)
(***************************************************************************)
Live == phase \in {"running", "stopping"}

\* The declared payload lengths of the frames producers send.
MaxPayloadLen == 10 * 1024 * 1024
FrameLens == {MaxPayloadLen, MaxPayloadLen + 1}

\* Mutant: a frame as long as the cutoff is rejected too.
TooLargeFromCutoff(payloadLen) == payloadLen >= MaxPayloadLen

\* if payloadLen > 10*1024*1024
TooLarge(payloadLen) == payloadLen > MaxPayloadLen

\* The byte handleConnection writes after processMessage.
AckByte == 0

\* conn.Write([]byte{0x00}), whatever processMessage returned.
AckOf(err) == AckByte

\* A frame was read to its end: type byte, length payloadLen, payload.
ReadFrame(cn, payloadLen) == [cn EXCEPT !.read = @ + 1, !.len = Some(payloadLen)]

\* processMessage has returned: the ACK is written and the loop starts over.
Acked(cn, err) == [cn EXCEPT !.pc = "top", !.bp = NoBatch, !.acks = Append(@, AckOf(err))]

Accept(c) ==
    /\ phase = "running"
    /\ acceptLoop = "running"
    /\ conn[c].pc = "unborn"
    /\ conn' = [conn EXCEPT ![c].pc = "top"]
    /\ UNCHANGED <<store, config, phase, ctxDone, chansClosed, traceChan, spanChan,
                   memoryEventChan, spanBuf, memBuf, flushLoop, acceptLoop, metrics,
                   replay, budget, accepted, commits, writes, last, replayed>>
    /\ UNCHANGED <<call, mu, client>>

\* Accept fails on the closed listener and the context is done.
AcceptExit ==
    /\ phase = "stopping"
    /\ acceptLoop = "running"
    /\ ctxDone
    /\ acceptLoop' = "done"
    /\ UNCHANGED <<store, config, phase, ctxDone, chansClosed, traceChan, spanChan,
                   memoryEventChan, spanBuf, memBuf, flushLoop, metrics, conn, replay,
                   budget, accepted, commits, writes, last, replayed>>
    /\ UNCHANGED <<call, mu, client>>

\* Top of the loop: select on ctx.Done with a default.
ConnTop(c) ==
    /\ Live
    /\ conn[c].pc = "top"
    /\ conn' = [conn EXCEPT ![c].pc = IF ctxDone THEN "closed" ELSE "reading"]
    /\ UNCHANGED <<store, config, phase, ctxDone, chansClosed, traceChan, spanChan,
                   memoryEventChan, spanBuf, memBuf, flushLoop, acceptLoop, metrics,
                   replay, budget, accepted, commits, writes, last, replayed>>
    /\ UNCHANGED <<call, mu, client>>

\* The producer closes the connection: io.EOF on the type byte. Any other
\* error of that read is logged at debug level and ends the task the same
\* way, without a count.
ConnEOF(c) ==
    /\ Live
    /\ conn[c].pc = "reading"
    /\ conn' = [conn EXCEPT ![c].pc = "closed"]
    /\ UNCHANGED <<store, config, phase, ctxDone, chansClosed, traceChan, spanChan,
                   memoryEventChan, spanBuf, memBuf, flushLoop, acceptLoop, metrics,
                   replay, budget, accepted, commits, writes, last, replayed>>
    /\ UNCHANGED <<call, mu, client>>

Receives(c) ==
    /\ Live
    /\ conn[c].pc = "reading"
    /\ budget > 0
    /\ budget' = budget - 1

SentEarlier(c, kind, id) ==
    \E a \in accepted :
        /\ a.conn = c
        /\ a.kind = kind
        /\ a.sound
        /\ IF kind = "trace" THEN a.row.trace_id = id ELSE a.row.span_id = id

\* A decoded item: was its row inside the enums with its parent sent earlier on
\* the same connection (sound), and was its parent stored when it was decoded.
Item(c, kind, row) ==
    [conn |-> c, kind |-> kind, row |-> row,
     sound |-> CASE kind = "trace" -> row.status \in TraceStatuses
                 [] kind = "span" -> /\ row.operation_type \in OperationTypes
                                     /\ SentEarlier(c, "trace", row.trace_id)
                 [] kind = "mem" -> /\ row.operation \in MemoryOperations
                                    /\ SentEarlier(c, "span", row.span_id),
     parentStored |-> CASE kind = "trace" -> TRUE
                        [] kind = "span" -> HasTrace(store, row.trace_id)
                        [] kind = "mem" -> HasSpan(store, row.span_id)]

\* A send on a closed channel panics, also inside a select with a default;
\* the item was decoded before the select.
Panic(c, kind, row) ==
    /\ phase' = "panicked"
    /\ accepted' = accepted \cup {Item(c, kind, row)}
    /\ \E len \in FrameLens :
          ~TooLarge(len) /\ conn' = [conn EXCEPT ![c] = ReadFrame(@, len)]
    /\ UNCHANGED <<store, config, ctxDone, chansClosed, traceChan, spanChan,
                   memoryEventChan, spanBuf, memBuf, flushLoop, acceptLoop, metrics,
                   replay, commits, writes, last, replayed>>

Overflow(c, op) == [task |-> ConnTask(c), op |-> op, via |-> "overflow"]

\* processMessage, case MsgTrace.
ConnTrace(c, t) ==
    /\ Receives(c)
    /\ IF chansClosed THEN Panic(c, "trace", t)
       ELSE /\ accepted' = accepted \cup {Item(c, "trace", t)}
            /\ \E len \in FrameLens :
                  /\ ~TooLarge(len)
                  /\ conn' = [conn EXCEPT ![c] = Acked(ReadFrame(@, len), Len(traceChan) >= TraceChanCap /\ InsertTrace(store, t).err)]
            /\ IF Len(traceChan) < TraceChanCap
               THEN /\ traceChan' = Append(traceChan, t)
                    /\ metrics' = Inc(metrics, "TracesIngested", 1)
                    /\ UNCHANGED <<store, commits, writes>>
               ELSE LET r == InsertTrace(store, t) IN
                    /\ store' = r.store
                    /\ metrics' = IF r.err THEN Inc(metrics, "ErrorCount", 1)
                                  ELSE Inc(metrics, "TracesIngested", 1)
                    /\ commits' = IF r.err THEN commits
                                  ELSE [commits EXCEPT !.traces = @ + 1]
                    /\ writes' = writes \cup {Overflow(c, "InsertTrace")}
                    /\ UNCHANGED traceChan
            /\ UNCHANGED <<config, phase, ctxDone, chansClosed, spanChan,
                           memoryEventChan, spanBuf, memBuf, flushLoop, acceptLoop,
                           replay, last, replayed>>
    /\ UNCHANGED <<call, mu, client>>

\* processMessage, case MsgSpan.
ConnSpan(c, sp) ==
    /\ Receives(c)
    /\ IF chansClosed THEN Panic(c, "span", sp)
       ELSE /\ accepted' = accepted \cup {Item(c, "span", sp)}
            /\ \E len \in FrameLens :
                  /\ ~TooLarge(len)
                  /\ conn' = [conn EXCEPT ![c] = Acked(ReadFrame(@, len), Len(spanChan) >= SpanChanCap /\ InsertSpan(store, sp).err)]
            /\ IF Len(spanChan) < SpanChanCap
               THEN /\ spanChan' = Append(spanChan, sp)
                    /\ metrics' = Inc(metrics, "SpansIngested", 1)
                    /\ UNCHANGED <<store, commits, writes>>
               ELSE LET r == InsertSpan(store, sp) IN
                    /\ store' = r.store
                    /\ metrics' = IF r.err THEN Inc(metrics, "ErrorCount", 1)
                                  ELSE Inc(metrics, "SpansIngested", 1)
                    /\ commits' = IF r.err THEN commits
                                  ELSE [commits EXCEPT !.spans = @ + 1]
                    /\ writes' = writes \cup {Overflow(c, "InsertSpan")}
                    /\ UNCHANGED spanChan
            /\ UNCHANGED <<config, phase, ctxDone, chansClosed, traceChan,
                           memoryEventChan, spanBuf, memBuf, flushLoop, acceptLoop,
                           replay, last, replayed>>
    /\ UNCHANGED <<call, mu, client>>

\* processMessage, case MsgMemoryEvent.
ConnMemoryEvent(c, ev) ==
    /\ Receives(c)
    /\ IF chansClosed THEN Panic(c, "mem", ev)
       ELSE /\ accepted' = accepted \cup {Item(c, "mem", ev)}
            /\ \E len \in FrameLens :
                  /\ ~TooLarge(len)
                  /\ conn' = [conn EXCEPT ![c] = Acked(ReadFrame(@, len), Len(memoryEventChan) >= MemoryEventChanCap /\ InsertMemoryEvent(store, ev).err)]
            /\ IF Len(memoryEventChan) < MemoryEventChanCap
               THEN /\ memoryEventChan' = Append(memoryEventChan, ev)
                    /\ metrics' = Inc(metrics, "MemoryEvents", 1)
                    /\ UNCHANGED <<store, commits, writes>>
               ELSE LET r == InsertMemoryEvent(store, ev) IN
                    /\ store' = r.store
                    /\ metrics' = IF r.err THEN Inc(metrics, "ErrorCount", 1)
                                  ELSE Inc(metrics, "MemoryEvents", 1)
                    /\ commits' = IF r.err THEN commits
                                  ELSE [commits EXCEPT !.memory_events = @ + 1]
                    /\ writes' = writes \cup {Overflow(c, "InsertMemoryEvent")}
                    /\ UNCHANGED memoryEventChan
            /\ UNCHANGED <<config, phase, ctxDone, chansClosed, traceChan, spanChan,
                           spanBuf, memBuf, flushLoop, acceptLoop, replay, last,
                           replayed>>
    /\ UNCHANGED <<call, mu, client>>

\* processMessage, case MsgBatch: decode, then processBatch step by step.
ConnBatch(c, b) ==
    /\ Receives(c)
    /\ \E len \in FrameLens :
          /\ ~TooLarge(len)
          /\ conn' = [conn EXCEPT ![c] = [ReadFrame(conn[c], len) EXCEPT
                                             !.pc = "batch",
                                             !.bp = BeginBatch(store, b)]]
    /\ UNCHANGED <<store, config, phase, ctxDone, chansClosed, traceChan, spanChan,
                   memoryEventChan, spanBuf, memBuf, flushLoop, acceptLoop, metrics,
                   replay, accepted, commits, writes, last, replayed>>
    /\ UNCHANGED <<call, mu, client>>

\* One step of processBatch in a connection task; on return handleConnection
\* counts an error, writes the ACK and loops.
ConnBatchStep(c) ==
    /\ Live
    /\ conn[c].pc = "batch"
    /\ LET bp == conn[c].bp
           r == AdvanceBatch(store, metrics, bp) IN
       /\ store' = r.store
       /\ writes' = writes \cup Wrote(ConnTask(c), bp.stage)
       /\ commits' = Committed(commits, bp.batch, bp.stage, r.bp.stage # "err")
       /\ IF Returned(r.bp)
          THEN /\ metrics' = IF r.bp.stage = "err" THEN Inc(r.metrics, "ErrorCount", 1)
                             ELSE r.metrics
               /\ conn' = [conn EXCEPT ![c] = Acked(@, r.bp.stage = "err")]
               /\ last' = [last EXCEPT ![ConnTask(c)] = r.bp]
          ELSE /\ metrics' = r.metrics
               /\ conn' = [conn EXCEPT ![c].bp = r.bp]
               /\ UNCHANGED last
    /\ UNCHANGED <<config, phase, ctxDone, chansClosed, traceChan, spanChan,
                   memoryEventChan, spanBuf, memBuf, flushLoop, acceptLoop, replay,
                   budget, accepted, replayed>>
    /\ UNCHANGED <<call, mu, client>>

KnownTypes == {MsgTrace, MsgSpan, MsgMemoryEvent, MsgBatch}

\* A message whose payload does not decode, or whose type is unknown:
\* processMessage returns an error.
ConnBadMessage(c, ty, payload) ==
    /\ Receives(c)
    /\ ty \notin KnownTypes \/ Decode(payload).err
    /\ metrics' = Inc(metrics, "ErrorCount", 1)
    /\ \E len \in FrameLens :
          /\ ~TooLarge(len)
          /\ conn' = [conn EXCEPT ![c] = Acked(ReadFrame(@, len), TRUE)]
    /\ UNCHANGED <<store, config, phase, ctxDone, chansClosed, traceChan, spanChan,
                   memoryEventChan, spanBuf, memBuf, flushLoop, acceptLoop, replay,
                   accepted, commits, writes, last, replayed>>
    /\ UNCHANGED <<call, mu, client>>

\* The header declares a payload above the cutoff: the frame is not read, the
\* error is counted and handleConnection returns, closing the connection.
ConnOversize(c, len) ==
    /\ Receives(c)
    /\ TooLarge(len)
    /\ metrics' = Inc(metrics, "ErrorCount", 1)
    /\ conn' = [conn EXCEPT ![c].pc = "closed", ![c].len = Some(len)]
    /\ UNCHANGED <<store, config, phase, ctxDone, chansClosed, traceChan, spanChan,
                   memoryEventChan, spanBuf, memBuf, flushLoop, acceptLoop, replay,
                   accepted, commits, writes, last, replayed>>
    /\ UNCHANGED <<call, mu, client>>

\* The stream ends inside a frame, in the length or in the payload: the error
\* is counted and handleConnection returns.
ConnShortRead(c) ==
    /\ Receives(c)
    /\ metrics' = Inc(metrics, "ErrorCount", 1)
    /\ conn' = [conn EXCEPT ![c].pc = "closed"]
    /\ UNCHANGED <<store, config, phase, ctxDone, chansClosed, traceChan, spanChan,
                   memoryEventChan, spanBuf, memBuf, flushLoop, acceptLoop, replay,
                   accepted, commits, writes, last, replayed>>
    /\ UNCHANGED <<call, mu, client>>

(***************************************************************************)
(* flushLoop.                                                              *)
(***************************************************************************)
\* Mutant: the flush closure leaves the memory-event buffer out.
FlushSpansOnly(db, mt, sb, mb) ==
    LET r1 == IF sb # << >> THEN BatchInsertSpans(db, sb) ELSE Ok(db)
        m1 == IF sb = << >> THEN mt
              ELSE IF r1.err THEN Inc(mt, "ErrorCount", 1)
              ELSE Inc(mt, "BatchesCommitted", 1)
    IN [store |-> r1.store, metrics |-> m1,
        spans |-> IF sb # << >> /\ ~r1.err THEN Len(sb) ELSE 0,
        memory_events |-> 0]

\* The flush closure: each non-empty buffer goes to the store as one batch and
\* is emptied whether the batch committed or not.
Flush(db, mt, sb, mb) ==
    LET r1 == IF sb # << >> THEN BatchInsertSpans(db, sb) ELSE Ok(db)
        m1 == IF sb = << >> THEN mt
              ELSE IF r1.err THEN Inc(mt, "ErrorCount", 1)
              ELSE Inc(mt, "BatchesCommitted", 1)
        r2 == IF mb # << >> THEN BatchInsertMemoryEvents(r1.store, mb) ELSE Ok(r1.store)
        m2 == IF mb = << >> THEN m1
              ELSE IF r2.err THEN Inc(m1, "ErrorCount", 1)
              ELSE Inc(m1, "BatchesCommitted", 1)
    IN [store |-> r2.store, metrics |-> m2,
        spans |-> IF sb # << >> /\ ~r1.err THEN Len(sb) ELSE 0,
        memory_events |-> IF mb # << >> /\ ~r2.err THEN Len(mb) ELSE 0]

FlushWrote(sb, mb) ==
    (IF sb # << >> THEN {[task |-> FlushTask, op |-> "BatchInsertSpans", via |-> "flush"]}
     ELSE {})
    \cup
    (IF mb # << >>
     THEN {[task |-> FlushTask, op |-> "BatchInsertMemoryEvents", via |-> "flush"]}
     ELSE {})

\* flush() on the buffers sb and mb; exit says whether the loop returns after it.
DoFlush(sb, mb, exit) ==
    LET r == Flush(store, metrics, sb, mb) IN
    /\ store' = r.store
    /\ metrics' = r.metrics
    /\ commits' = [commits EXCEPT !.spans = @ + r.spans,
                                  !.memory_events = @ + r.memory_events]
    /\ writes' = writes \cup FlushWrote(sb, mb)
    /\ spanBuf' = << >>
    /\ memBuf' = << >>
    /\ flushLoop' = IF exit THEN "done" ELSE flushLoop

\* case <-ctx.Done()
FlushCtxDone ==
    /\ flushLoop = "running"
    /\ Live
    /\ ctxDone
    /\ DoFlush(spanBuf, memBuf, TRUE)
    /\ UNCHANGED <<config, phase, ctxDone, chansClosed, traceChan, spanChan,
                   memoryEventChan, acceptLoop, conn, replay, budget, accepted, last,
                   replayed>>
    /\ UNCHANGED <<call, mu, client>>

\* case trace, ok := <-d.traceChan
FlushTrace ==
    /\ flushLoop = "running"
    /\ Live
    /\ IF traceChan # << >>
       THEN LET r == InsertTrace(store, Head(traceChan)) IN
            /\ traceChan' = Tail(traceChan)
            /\ store' = r.store
            /\ metrics' = IF r.err THEN Inc(metrics, "ErrorCount", 1) ELSE metrics
            /\ commits' = IF r.err THEN commits ELSE [commits EXCEPT !.traces = @ + 1]
            /\ writes' = writes \cup
                            {[task |-> FlushTask, op |-> "InsertTrace", via |-> "flush"]}
            /\ UNCHANGED <<spanBuf, memBuf, flushLoop>>
       ELSE /\ chansClosed
            /\ DoFlush(spanBuf, memBuf, TRUE)
            /\ UNCHANGED traceChan
    /\ UNCHANGED <<config, phase, ctxDone, chansClosed, spanChan, memoryEventChan,
                   acceptLoop, conn, replay, budget, accepted, last, replayed>>
    /\ UNCHANGED <<call, mu, client>>

\* Mutant: the received span goes to the front of the buffer.
FlushSpanPrepends ==
    /\ flushLoop = "running"
    /\ Live
    /\ IF spanChan # << >>
       THEN LET buf == <<Head(spanChan)>> \o spanBuf IN
            /\ spanChan' = Tail(spanChan)
            /\ IF Len(buf) >= config.BatchSize
               THEN DoFlush(buf, memBuf, FALSE)
               ELSE /\ spanBuf' = buf
                    /\ UNCHANGED <<store, metrics, commits, writes, memBuf, flushLoop>>
       ELSE /\ chansClosed
            /\ DoFlush(spanBuf, memBuf, TRUE)
            /\ UNCHANGED spanChan
    /\ UNCHANGED <<config, phase, ctxDone, chansClosed, traceChan, memoryEventChan,
                   acceptLoop, conn, replay, budget, accepted, last, replayed>>
    /\ UNCHANGED <<call, mu, client>>

\* case span, ok := <-d.spanChan
FlushSpan ==
    /\ flushLoop = "running"
    /\ Live
    /\ IF spanChan # << >>
       THEN LET buf == Append(spanBuf, Head(spanChan)) IN
            /\ spanChan' = Tail(spanChan)
            /\ IF Len(buf) >= config.BatchSize
               THEN DoFlush(buf, memBuf, FALSE)
               ELSE /\ spanBuf' = buf
                    /\ UNCHANGED <<store, metrics, commits, writes, memBuf, flushLoop>>
       ELSE /\ chansClosed
            /\ DoFlush(spanBuf, memBuf, TRUE)
            /\ UNCHANGED spanChan
    /\ UNCHANGED <<config, phase, ctxDone, chansClosed, traceChan, memoryEventChan,
                   acceptLoop, conn, replay, budget, accepted, last, replayed>>
    /\ UNCHANGED <<call, mu, client>>

\* case event, ok := <-d.memoryEventChan
FlushMemoryEvent ==
    /\ flushLoop = "running"
    /\ Live
    /\ IF memoryEventChan # << >>
       THEN LET buf == Append(memBuf, Head(memoryEventChan)) IN
            /\ memoryEventChan' = Tail(memoryEventChan)
            /\ IF Len(buf) >= config.BatchSize
               THEN DoFlush(spanBuf, buf, FALSE)
               ELSE /\ memBuf' = buf
                    /\ UNCHANGED <<store, metrics, commits, writes, spanBuf, flushLoop>>
       ELSE /\ chansClosed
            /\ DoFlush(spanBuf, memBuf, TRUE)
            /\ UNCHANGED memoryEventChan
    /\ UNCHANGED <<config, phase, ctxDone, chansClosed, traceChan, spanChan,
                   acceptLoop, conn, replay, budget, accepted, last, replayed>>
    /\ UNCHANGED <<call, mu, client>>

\* case <-ticker.C
FlushTick ==
    /\ flushLoop = "running"
    /\ Live
    /\ DoFlush(spanBuf, memBuf, FALSE)
    /\ UNCHANGED <<config, phase, ctxDone, chansClosed, traceChan, spanChan,
                   memoryEventChan, acceptLoop, conn, replay, budget, accepted, last,
                   replayed>>
    /\ UNCHANGED <<call, mu, client>>

(***************************************************************************)
(* Stop.                                                                   *)
(***************************************************************************)
\* cancel(), listener.Close() and the three close(chan) calls.
Stop ==
    /\ phase = "running"
    /\ phase' = "stopping"
    /\ ctxDone' = TRUE
    /\ chansClosed' = TRUE
    /\ UNCHANGED <<store, config, traceChan, spanChan, memoryEventChan, spanBuf, memBuf,
                   flushLoop, acceptLoop, metrics, conn, replay, budget, accepted,
                   commits, writes, last, replayed>>
    /\ UNCHANGED <<call, mu, client>>

\* wg.Wait() returns once every task has called wg.Done(); Stop returns.
StopReturn ==
    /\ phase = "stopping"
    /\ flushLoop = "done"
    /\ acceptLoop = "done"
    /\ \A c \in Conns : conn[c].pc \in {"unborn", "closed"}
    /\ phase' = "stopped"
    /\ UNCHANGED <<store, config, ctxDone, chansClosed, traceChan, spanChan,
                   memoryEventChan, spanBuf, memBuf, flushLoop, acceptLoop, metrics,
                   conn, replay, budget, accepted, commits, writes, last, replayed>>
    /\ UNCHANGED <<call, mu, client>>

(***************************************************************************)
(* Inputs and specifications.                                              *)
(***************************************************************************)
T1 == Trace("t1", "running")
S1 == Span("s1", "t1", "LLM")
S2 == Span("s2", "t1", "LLM")
E1 == MemoryEvent("e1", "s1", "ADD")
E2 == MemoryEvent("e2", "s1", "ADD")

\* BATCH payloads producers send next to single items.
WireBatches ==
    {BatchMessage(<<T1>>, <<S1>>, <<E1>>, <<ToolCall("s1")>>),
     BatchMessage(<< >>, <<S2>>, << >>, << >>)}

\* A daemon run: Start on an empty pending-write log, producers, the flush
\* loop, Stop.
Next ==
    \/ StartBegin
    \/ StartListen
    \/ \E c \in Conns : Accept(c)
    \/ AcceptExit
    \/ \E c \in Conns : ConnTop(c)
    \/ \E c \in Conns : ConnEOF(c)
    \/ \E c \in Conns, t \in Traces : ConnTrace(c, t)
    \/ \E c \in Conns, sp \in Spans : ConnSpan(c, sp)
    \/ \E c \in Conns, ev \in MemoryEvents : ConnMemoryEvent(c, ev)
    \/ \E c \in Conns, b \in WireBatches : ConnBatch(c, b)
    \/ \E c \in Conns : ConnBatchStep(c)
    \/ \E c \in Conns, ty \in WireTypes : ConnBadMessage(c, ty, Corrupt)
    \/ \E c \in Conns, len \in FrameLens : ConnOversize(c, len)
    \/ \E c \in Conns : ConnShortRead(c)
    \/ FlushCtxDone
    \/ FlushTrace
    \/ FlushSpan
    \/ FlushMemoryEvent
    \/ FlushTick
    \/ Stop
    \/ StopReturn

Spec == Init /\ [][Next]_vars

\* The lists a BATCH payload may hold.
BogusTrace == Trace("t1", "bogus")
BogusSpan == Span("s2", "t1", "bogus")
TraceLists == {<< >>, <<T1>>, <<T1, BogusTrace>>}
SpanLists == {<< >>, <<S1, S2>>, <<S1, BogusSpan>>}
MemoryEventLists == {<< >>, <<E1, E2>>, <<E1, E1>>}
ToolCallLists == {<< >>, <<ToolCall("s1"), ToolCall("s2")>>}

BatchUniverse ==
    {BatchMessage(ts, ss, ms, cs) :
        ts \in TraceLists, ss \in SpanLists, ms \in MemoryEventLists, cs \in ToolCallLists}

\* A daemon run whose producers send BATCH messages only.
InitBatch == Constructed(EmptyStore, MaxBatchMsgs)

NextBatch ==
    \/ StartBegin
    \/ StartListen
    \/ \E c \in Conns : Accept(c)
    \/ AcceptExit
    \/ \E c \in Conns : ConnTop(c)
    \/ \E c \in Conns : ConnEOF(c)
    \/ \E c \in Conns, b \in BatchUniverse : ConnBatch(c, b)
    \/ \E c \in Conns : ConnBatchStep(c)
    \/ FlushCtxDone
    \/ FlushTrace
    \/ FlushSpan
    \/ FlushMemoryEvent
    \/ FlushTick
    \/ Stop
    \/ StopReturn

SpecBatch == InitBatch /\ [][NextBatch]_vars

\* Stores an earlier run of the daemon left behind.
SeedStores ==
    LET a == InsertTrace(EmptyStore, T1).store
        b == InsertSpan(a, S1).store
        c == InsertMemoryEvent(b, E1).store
    IN {EmptyStore, a, b, c}

\* What the pending-write log may hold at startup.
PendingPayloads ==
    {Corrupt} \cup
    {BatchMessage(ts, ss, ms, cs) :
        ts \in {<< >>, <<T1>>}, ss \in {<< >>, <<S1>>, <<S1, BogusSpan>>},
        ms \in {<< >>, <<E1>>}, cs \in {<< >>, <<ToolCall("s1")>>}}

\* Startup of a daemon on a store with a pending-write log: crash recovery.
InitRecovery == \E db \in SeedStores : Constructed(db, 0)

NextRecovery ==
    \/ \E payload \in PendingPayloads : WritePending(payload)
    \/ StartBegin
    \/ ReplayDecode
    \/ ReplayBatchStep
    \/ StartListen

SpecRecovery == InitRecovery /\ [][NextRecovery]_vars

(***************************************************************************)
(* The store API called directly, one call at a time (as the store's tests  *)
(* and the query side do).                                                  *)
(***************************************************************************)
DaemonIdle ==
    UNCHANGED <<config, phase, ctxDone, chansClosed, traceChan, spanChan,
                memoryEventChan, spanBuf, memBuf, flushLoop, acceptLoop, metrics, conn,
                replay, accepted, commits, writes, last, replayed>>

\* A write of the store API: r is what the operation returns on the current store.
Write(op, arg, r) ==
    /\ budget > 0
    /\ budget' = budget - 1
    /\ store' = r.store
    /\ call' = [op |-> op, arg |-> arg, before |-> store, err |-> r.err, rows |-> << >>]
    /\ DaemonIdle
    /\ UNCHANGED <<mu, client>>

\* A read of the store API returning rows.
Read(op, arg, rows) ==
    /\ budget > 0
    /\ budget' = budget - 1
    /\ call' = [op |-> op, arg |-> arg, before |-> store, err |-> FALSE, rows |-> rows]
    /\ DaemonIdle
    /\ UNCHANGED <<store, mu, client>>

CallInsertTrace(t) == Write("InsertTrace", t, InsertTrace(store, t))
CallInsertSpan(sp) == Write("InsertSpan", sp, InsertSpan(store, sp))
CallInsertMemoryEvent(ev) == Write("InsertMemoryEvent", ev, InsertMemoryEvent(store, ev))
CallInsertToolCall(c) == Write("InsertToolCall", c, InsertToolCall(store, c))
CallBatchInsertSpans(sps) == Write("BatchInsertSpans", sps, BatchInsertSpans(store, sps))
CallBatchInsertMemoryEvents(evs) ==
    Write("BatchInsertMemoryEvents", evs, BatchInsertMemoryEvents(store, evs))
\* A DELETE statement on the database file (the store API has none).
SqlDeleteTrace(id) == Write("DELETE", id, Ok(DeleteTrace(store, id)))
CallGetMemoryDiffs(spanID) == Read("GetMemoryDiffs", spanID, GetMemoryDiffs(store, spanID))
CallGetMemoryTimeline(key, namespace) ==
    Read("GetMemoryTimeline", <<key, namespace>>, GetMemoryTimeline(store, key, namespace))

\* The traces, spans, memory events and tool calls callers pass.
StoreTraces ==
    {TraceRow("t1", "a", Null, "running", Null),
     TraceRow("t1", "b", Some(9), "completed", Null),
     TraceRow("t1", "b", Null, "failed", Some("m")),
     TraceRow("t1", "b", Some(8), "running", Some("n")),
     TraceRow("t1", "b", Null, "bogus", Null)}

StoreSpans ==
    UNION {{SpanRow(id, "t1", "LLM", "a", "a", Null, "ok"),
            SpanRow(id, "t1", "LLM", "b", "b", Some("c"), "error"),
            SpanRow(id, "t0", "TOOL", "b", "a", Null, "ok"),
            SpanRow(id, "t1", "bogus", "a", "a", Null, "ok")} : id \in SpanIds}

StoreMemoryEvents ==
    UNION {{MemoryEventRow(id, "s1", "ADD", Null, Some("v")),
            MemoryEventRow(id, "s1", "ADD", Some("o"), Some("v")),
            MemoryEventRow(id, "s1", "UPDATE", Some("o"), Some("v")),
            MemoryEventRow(id, "s1", "UPDATE", Some("o"), Null),
            MemoryEventRow(id, "s1", "DELETE", Some("o"), Null),
            MemoryEventRow(id, "s1", "bogus", Null, Some("v")),
            MemoryEventRow(id, "s0", "ADD", Null, Some("v"))} : id \in WireEventIds}

StoreToolCalls == {ToolCall("s1"), ToolCall("s2"), ToolCall("s0")}

Lists(S) == {<< >>} \cup {<<x>> : x \in S} \cup {<<x, y>> : x, y \in S}

StoreSpanLists ==
    Lists({SpanRow("s1", "t1", "LLM", "a", "a", Null, "ok"),
           SpanRow("s1", "t1", "LLM", "b", "b", Some("c"), "error"),
           SpanRow("s2", "t1", "LLM", "a", "a", Null, "ok"),
           SpanRow("s2", "t1", "bogus", "a", "a", Null, "ok"),
           SpanRow("s2", "t0", "TOOL", "b", "a", Null, "ok")})

StoreMemoryEventLists ==
    Lists({MemoryEventRow("e1", "s1", "ADD", Null, Some("v")),
           MemoryEventRow("e2", "s1", "DELETE", Some("o"), Null),
           MemoryEventRow("e2", "s1", "bogus", Null, Some("v")),
           MemoryEventRow("e2", "s0", "ADD", Null, Some("v"))})

\* Stores earlier calls left behind.
StoreSeeds ==
    LET a == InsertTrace(EmptyStore, T1).store
        b == InsertSpan(a, S1).store
        c == InsertMemoryEvent(b, E1).store
        d == InsertToolCall(InsertSpan(c, S2).store, ToolCall("s2")).store
    IN {EmptyStore, a, b, c, d}

InitStore == \E db \in StoreSeeds : Constructed(db, MaxCalls)

NextStore ==
    \/ \E t \in StoreTraces : CallInsertTrace(t)
    \/ \E sp \in StoreSpans : CallInsertSpan(sp)
    \/ \E ev \in StoreMemoryEvents : CallInsertMemoryEvent(ev)
    \/ \E c \in StoreToolCalls : CallInsertToolCall(c)
    \/ \E sps \in StoreSpanLists : CallBatchInsertSpans(sps)
    \/ \E evs \in StoreMemoryEventLists : CallBatchInsertMemoryEvents(evs)
    \/ \E id \in WireTraceIds : SqlDeleteTrace(id)
    \/ \E sp \in SpanIds : CallGetMemoryDiffs(sp)
    \/ CallGetMemoryTimeline("k", "default")

SpecStore == InitStore /\ [][NextStore]_vars

(***************************************************************************)
(* The pending-write log called directly (as TestPendingWrites does), with  *)
(* an operator marking rows failed by hand.                                 *)
(***************************************************************************)
\* result.LastInsertId() of the INSERT into pending_writes (AUTOINCREMENT).
LastInsertId(db) == Len(db.pending_writes)

\* UPDATE pending_writes SET status = 'failed' on a pending row: the explicit
\* mark the schema's CHECK provides for (the store API has none).
MarkFailed(db, writeID) ==
    IF writeID \in DOMAIN db.pending_writes /\ db.pending_writes[writeID].status = "pending"
    THEN [db EXCEPT !.pending_writes[writeID].status = "failed"]
    ELSE db

CallWritePendingPayload(payload) ==
    /\ budget > 0
    /\ budget' = budget - 1
    /\ store' = WritePendingPayload(store, payload)
    /\ call' = [op |-> "WritePendingPayload", arg |-> payload, before |-> store,
                err |-> FALSE, rows |-> << >>, ret |-> LastInsertId(store')]
    /\ DaemonIdle
    /\ UNCHANGED <<mu, client>>

CallCommitPendingPayload(writeID) ==
    Write("CommitPendingPayload", writeID, Ok(CommitPendingPayload(store, writeID)))
CallGetPendingPayloads == Read("GetPendingPayloads", << >>, GetPendingPayloads(store))
SqlMarkFailed(writeID) == Write("UPDATE", writeID, Ok(MarkFailed(store, writeID)))

\* The payloads callers log: a batch and bytes that decode as none.
LogPayloads == {Corrupt, BatchMessage(<<T1>>, << >>, << >>, << >>)}

InitLog == Constructed(EmptyStore, MaxLogCalls)

NextLog ==
    \/ \E payload \in LogPayloads : CallWritePendingPayload(payload)
    \/ \E id \in 1 .. MaxLogCalls : CallCommitPendingPayload(id)
    \/ CallGetPendingPayloads
    \/ \E id \in 1 .. MaxLogCalls : SqlMarkFailed(id)
    \/ CallInsertTrace(T1)

SpecLog == InitLog /\ [][NextLog]_vars

(***************************************************************************)
(* The timeline queries on a store with spans under two traces and memory   *)
(* events under two spans.                                                  *)
(***************************************************************************)
CallQueryTimeline(traceID) == Read("QueryTimeline", traceID, QueryTimeline(store, traceID))

TimelineTraceIds == {"t1", "t2"}
TimelineTraces == {TraceRow(id, "a", Null, "running", Null) : id \in TimelineTraceIds}
TimelineSpans ==
    {SpanRow(id, tr, "LLM", v, v, Null, "ok") :
        id \in SpanIds, tr \in TimelineTraceIds, v \in Versions}
TimelineMemoryEvents ==
    {MemoryEventAt(id, sp, v, "ADD", Null, Some("v")) :
        id \in WireEventIds, sp \in SpanIds, v \in Versions}

\* Stores earlier calls left behind.
TimelineSeeds ==
    LET a == InsertTrace(InsertTrace(EmptyStore, TraceRow("t1", "a", Null, "running", Null)).store,
                         TraceRow("t2", "a", Null, "running", Null)).store
        b == InsertSpan(a, SpanRow("s1", "t1", "LLM", "b", "b", Null, "ok")).store
        c == InsertSpan(b, SpanRow("s2", "t2", "LLM", "a", "a", Null, "ok")).store
    IN {EmptyStore, a, b, c}

InitTimeline == \E db \in TimelineSeeds : Constructed(db, MaxCalls)

NextTimeline ==
    \/ \E t \in TimelineTraces : CallInsertTrace(t)
    \/ \E sp \in TimelineSpans : CallInsertSpan(sp)
    \/ \E ev \in TimelineMemoryEvents : CallInsertMemoryEvent(ev)
    \/ \E id \in TimelineTraceIds : SqlDeleteTrace(id)
    \/ \E id \in TimelineTraceIds : CallQueryTimeline(id)
    \/ \E sp \in SpanIds : CallGetMemoryDiffs(sp)

SpecTimeline == InitTimeline /\ [][NextTimeline]_vars

(***************************************************************************)
(* QueryTraces on short and long traces tables.                             *)
(***************************************************************************)
CallQueryTraces(filter) == Read("QueryTraces", filter, QueryTraces(store, filter))

\* A traces table of n further rows: agents alternate, start times fall by one
\* every second row, every third trace is still running.
LongStore(n) ==
    [EmptyStore EXCEPT !.traces =
        [t \in TraceIds \cup {LongKeys[i] : i \in 1 .. n} |->
            IF t \in TraceIds THEN NoRow
            ELSE LET i == CHOOSE i \in 1 .. n : LongKeys[i] = t IN
                 TraceAt(t, IF i % 2 = 0 THEN "a" ELSE "b", n - (i \div 2), Null,
                         IF i % 3 = 0 THEN "running" ELSE "completed", Null)]]

QueriedTraces ==
    {TraceAt("t1", "a", 1, Null, "running", Null),
     TraceAt("t2", "b", 2, Some(9), "completed", Null),
     TraceAt("t3", "a", 2, Null, "failed", Null),
     TraceAt("t3", "a", 3, Null, "running", Null)}

TraceSeeds ==
    LET a == InsertTrace(EmptyStore, TraceAt("t1", "a", 1, Null, "running", Null)).store
        b == InsertTrace(a, TraceAt("t2", "b", 2, Some(9), "completed", Null)).store
    IN {EmptyStore, b, LongStore(DefaultLimit - 1), LongStore(DefaultLimit + 1)}

TraceFilters ==
    {TraceFilter(Null, Null, Null, Null, limit, offset) :
        limit \in {-1, 0, 1, 2}, offset \in {-1, 0, 1, 2}}
    \cup {TraceFilter(agent, status, Null, Null, 0, 0) :
             agent \in {Some("a"), Some("z")}, status \in {Null, Some("running")}}
    \cup {TraceFilter(Null, status, since, until, 0, 1) :
             status \in {Null, Some("completed")}, since \in {Null, Some(2)},
             until \in {Null, Some(2)}}
    \cup {TraceFilter(Some("a"), Null, Some(2), Null, 1, 1)}

InitTraces == \E db \in TraceSeeds : Constructed(db, MaxTraceCalls)

NextTraces ==
    \/ \E t \in QueriedTraces : CallInsertTrace(t)
    \/ \E filter \in TraceFilters : CallQueryTraces(filter)

SpecTraces == InitTraces /\ [][NextTraces]_vars

(***************************************************************************)
(* SearchContent on a store whose spans are inserted, upserted and deleted. *)
(***************************************************************************)
CallSearchContent(query, limit) ==
    \E rows \in SearchContent(store, query, limit) :
        Read("SearchContent", [query |-> query, limit |-> limit], rows)

SearchedSpans ==
    {SpanRow(id, "t1", "LLM", v, v, completion, "ok") :
        id \in SpanIds, v \in Versions, completion \in {Null, Some("c"), Some("d")}}

SearchedSpanLists ==
    {<<SpanRow("s1", "t1", "LLM", "a", "a", Some("c"), "ok"),
       SpanRow("s2", "t1", "LLM", "b", "b", Some("c"), "ok")>>,
     <<SpanRow("s1", "t1", "LLM", "b", "b", Some("d"), "ok"),
       SpanRow("s2", "t0", "LLM", "b", "b", Some("d"), "ok")>>}

SearchQueries == {"a", "b", "c", "d"}
SearchLimits == {0, 1}

InitSearch == \E db \in {EmptyStore, InsertTrace(EmptyStore, T1).store} : Constructed(db, MaxCalls)

NextSearch ==
    \/ CallInsertTrace(T1)
    \/ \E sp \in SearchedSpans : CallInsertSpan(sp)
    \/ \E sps \in SearchedSpanLists : CallBatchInsertSpans(sps)
    \/ SqlDeleteTrace("t1")
    \/ \E query \in SearchQueries, limit \in SearchLimits : CallSearchContent(query, limit)

SpecSearch == InitSearch /\ [][NextSearch]_vars

(***************************************************************************)
(* The analysis engine.  A float64 is modelled by the rational it stands   *)
(* for, a pair n/d in lowest terms with d > 0: the values the analysis     *)
(* meets are ratios of small integers.                                     *)
(***************************************************************************)
RECURSIVE Gcd(_, _)
Gcd(a, b) == IF b = 0 THEN a ELSE Gcd(b, a % b)

Abs(i) == IF i < 0 THEN -i ELSE i

\* n/d in lowest terms, the sign on n.
Rat(n, d) ==
    LET g == Gcd(Abs(n), Abs(d))
        s == IF d < 0 THEN -1 ELSE 1
    IN [n |-> s * (n \div g), d |-> s * (d \div g)]

\* float64(i)
Float(i) == [n |-> i, d |-> 1]

RAdd(x, y) ==
    LET g == Gcd(x.d, y.d)
    IN Rat(x.n * (y.d \div g) + y.n * (x.d \div g), (x.d \div g) * y.d)

RNeg(x) == [n |-> -x.n, d |-> x.d]
RSub(x, y) == RAdd(x, RNeg(y))
RMul(x, y) == Rat(x.n * y.n, x.d * y.d)
RDiv(x, y) == Rat(x.n * y.d, x.d * y.n)
RLess(x, y) == x.n * y.d < y.n * x.d

\* A running sum: var sum float64; for ... { sum += x }
RECURSIVE Sum(_)
Sum(xs) == IF xs = << >> THEN Float(0) ELSE RAdd(Sum(SubSeq(xs, 1, Len(xs) - 1)), xs[Len(xs)])

\* dataPoint
DataPoint(t, k) == [timestamp |-> Float(t), keyCount |-> Float(k)]

\* Mutant: no rule for a zero total sum of squares.
RSquaredNoZeroTot(ssRes, ssTot) ==
    IF ssTot = Float(0) THEN Float(0) ELSE RSub(Float(1), RDiv(ssRes, ssTot))

\* if ssTot == 0 { rSquared = 1.0 } else { rSquared = 1 - ssRes/ssTot }
RSquared(ssRes, ssTot) ==
    IF ssTot = Float(0) THEN Float(1) ELSE RSub(Float(1), RDiv(ssRes, ssTot))

Fit(slope, intercept, rSquared) ==
    [slope |-> slope, intercept |-> intercept, rSquared |-> rSquared]

\* linearRegression: ordinary least squares over the points.
linearRegression(points) ==
    LET n == Float(Len(points))
        sumX == Sum([i \in DOMAIN points |-> points[i].timestamp])
        sumY == Sum([i \in DOMAIN points |-> points[i].keyCount])
        sumXY == Sum([i \in DOMAIN points |-> RMul(points[i].timestamp, points[i].keyCount)])
        sumX2 == Sum([i \in DOMAIN points |-> RMul(points[i].timestamp, points[i].timestamp)])
        denom == RSub(RMul(n, sumX2), RMul(sumX, sumX))
    IN IF Len(points) < 2 THEN Fit(Float(0), Float(0), Float(0))
       ELSE IF denom = Float(0) THEN Fit(Float(0), RDiv(sumY, n), Float(0))
       ELSE LET slope == RDiv(RSub(RMul(n, sumXY), RMul(sumX, sumY)), denom)
                intercept == RDiv(RSub(sumY, RMul(slope, sumX)), n)
                meanY == RDiv(sumY, n)
                res == [i \in DOMAIN points |->
                           RSub(points[i].keyCount,
                                RAdd(RMul(slope, points[i].timestamp), intercept))]
                tot == [i \in DOMAIN points |-> RSub(points[i].keyCount, meanY)]
                ssRes == Sum([i \in DOMAIN points |-> RMul(res[i], res[i])])
                ssTot == Sum([i \in DOMAIN points |-> RMul(tot[i], tot[i])])
            IN Fit(slope, intercept, RSquared(ssRes, ssTot))

\* The point lists of the package's tests.
PerfectLine == <<DataPoint(0, 1), DataPoint(1, 3), DataPoint(2, 5), DataPoint(3, 7), DataPoint(4, 9)>>
FlatLine == <<DataPoint(0, 5), DataPoint(1, 5), DataPoint(2, 5), DataPoint(3, 5)>>
SinglePoint == <<DataPoint(0, 5)>>

Coords == 0 .. 2

RECURSIVE PointLists(_)
PointLists(n) ==
    IF n = 0 THEN {<< >>}
    ELSE LET shorter == PointLists(n - 1)
         IN shorter \cup {Append(ps, DataPoint(x, y)) :
                             ps \in {qs \in shorter : Len(qs) = n - 1},
                             x \in Coords, y \in Coords}

RegressionInputs == PointLists(MaxPoints) \cup {PerfectLine, FlatLine, SinglePoint}

CallLinearRegression(points) == Read("linearRegression", points, linearRegression(points))

\* One application: the function keeps no state between calls.
InitRegression == Constructed(EmptyStore, 1)

NextRegression == \E points \in RegressionInputs : CallLinearRegression(points)

SpecRegression == InitRegression /\ [][NextRegression]_vars

(***************************************************************************)
(* The span tree of the timeline view.                                     *)
(***************************************************************************)
\* spanNode
SpanNode(s, depth) == [span |-> s, depth |-> depth]

\* parentID := ""; if s.ParentSpanID != nil { parentID = *s.ParentSpanID }
ParentID(s) == IF s.parent_span_id = Null THEN "" ELSE s.parent_span_id[1]

\* childrenOf[parentID]: the spans appended under that parent, in input order.
ChildrenOf(spans, parentID) == SelectSeq(spans, LAMBDA s : ParentID(s) = parentID)

\* walk: each child of parentID, followed by the walk of that child.
RECURSIVE walk(_, _, _)
walk(spans, parentID, depth) ==
    LET children == ChildrenOf(spans, parentID)
        RECURSIVE From(_)
        From(i) == IF i > Len(children) THEN << >>
                   ELSE <<SpanNode(children[i], depth)>>
                        \o walk(spans, children[i].span_id, depth + 1) \o From(i + 1)
    IN From(1)

\* buildSpanTree: the walk from the parent id "", or the flat list when the
\* walk found nothing.
buildSpanTree(spans) ==
    IF Len(spans) = 0 THEN << >>
    ELSE LET result == walk(spans, "", 0)
         IN IF Len(result) = 0
            THEN << >> \o [i \in DOMAIN spans |-> SpanNode(spans[i], 0)]
            ELSE result

\* The spans of one timeline: distinct span ids (the primary key), each with no
\* parent, a parent among the ids, or a parent that is in no timeline.
TreeIdList == <<"s1", "s2", "s3", "s4">>
TreeIds == {TreeIdList[i] : i \in 1 .. MaxTreeSpans}
TreeParents == {Null} \cup {Some(id) : id \in TreeIds \cup {"gone"}}
TreeSpan(id, parent) == [Span(id, "t1", "LLM") EXCEPT !.parent_span_id = parent]

RECURSIVE TreeInputs(_)
TreeInputs(n) ==
    IF n = 0 THEN {<< >>}
    ELSE LET shorter == TreeInputs(n - 1)
             longest == {qs \in shorter : Len(qs) = n - 1}
             Unused(qs) == {id \in TreeIds : \A i \in DOMAIN qs : qs[i].span_id # id}
         IN shorter \cup UNION {{Append(qs, TreeSpan(id, p)) : id \in Unused(qs), p \in TreeParents} :
                                   qs \in longest}

CallBuildSpanTree(spans) == Read("buildSpanTree", spans, buildSpanTree(spans))

InitTree == Constructed(EmptyStore, 1)

NextTree == \E spans \in TreeInputs(MaxTreeSpans) : CallBuildSpanTree(spans)

SpecTree == InitTree /\ [][NextTree]_vars

(***************************************************************************)
(* One producer updating rows it sent before.  A producer sends the first  *)
(* state of a trace or span and later its final state under the same id.   *)
(***************************************************************************)
TraceBegun == Trace("t1", "running")
TraceEnded == Trace("t1", "completed")
SpanBegun == SpanRow("s1", "t1", "LLM", "a", "a", Null, "ok")
SpanEnded == SpanRow("s1", "t1", "LLM", "a", "b", Some("b"), "error")

\* Connection c has sent the row.
Sent(c, kind, row) == \E a \in accepted : a.conn = c /\ a.kind = kind /\ a.row = row

InitOrder == Constructed(EmptyStore, MaxMsgs)

NextOrder ==
    \/ StartBegin
    \/ StartListen
    \/ \E c \in Conns : Accept(c)
    \/ \E c \in Conns : ConnTop(c)
    \/ \E c \in Conns : ~Sent(c, "trace", TraceEnded) /\ ConnTrace(c, TraceBegun)
    \/ \E c \in Conns : Sent(c, "trace", TraceBegun) /\ ConnTrace(c, TraceEnded)
    \/ \E c \in Conns : ~Sent(c, "span", SpanEnded) /\ ConnSpan(c, SpanBegun)
    \/ \E c \in Conns : Sent(c, "span", SpanBegun) /\ ConnSpan(c, SpanEnded)
    \/ \E c \in Conns : ConnSpan(c, S2)
    \/ \E c \in Conns, ev \in {E1, E2} : ConnMemoryEvent(c, ev)
    \/ FlushTrace
    \/ FlushSpan
    \/ FlushMemoryEvent
    \/ FlushTick
    \/ FlushCtxDone
    \/ Stop
    \/ AcceptExit
    \/ StopReturn

SpecOrder == InitOrder /\ [][NextOrder]_vars

(***************************************************************************)
(* Shutdown.  The tasks of the daemon take their next step when they can   *)
(* (the scheduler runs every goroutine that is ready, and a select picks   *)
(* each ready case sooner or later); producers are under no obligation to  *)
(* send or to close.                                                       *)
(***************************************************************************)
NextStop ==
    \/ StartBegin
    \/ StartListen
    \/ \E c \in Conns : Accept(c)
    \/ AcceptExit
    \/ \E c \in Conns : ConnTop(c)
    \/ \E c \in Conns : ConnEOF(c)
    \/ \E c \in Conns, t \in Traces : ConnTrace(c, t)
    \/ \E c \in Conns, sp \in Spans : ConnSpan(c, sp)
    \/ \E c \in Conns, b \in WireBatches : ConnBatch(c, b)
    \/ \E c \in Conns : ConnBatchStep(c)
    \/ FlushCtxDone
    \/ FlushTrace
    \/ FlushSpan
    \/ FlushTick
    \/ Stop
    \/ StopReturn

TasksRun ==
    /\ WF_vars(AcceptExit)
    /\ WF_vars(FlushCtxDone)
    /\ WF_vars(StopReturn)
    /\ \A c \in Conns : WF_vars(ConnTop(c)) /\ WF_vars(ConnBatchStep(c))

SpecStop == Init /\ [][NextStop]_vars /\ TasksRun

(***************************************************************************)
(* Startup on a pending-write log, followed by live connections.           *)
(***************************************************************************)
StartupPayloads == {Corrupt} \cup WireBatches

InitStartup == Constructed(EmptyStore, MaxBatchMsgs)

NextStartup ==
    \/ \E payload \in StartupPayloads : WritePending(payload)
    \/ StartBegin
    \/ ReplayDecode
    \/ ReplayBatchStep
    \/ StartListen
    \/ \E c \in Conns : Accept(c)
    \/ \E c \in Conns : ConnTop(c)
    \/ \E c \in Conns, t \in Traces : ConnTrace(c, t)
    \/ \E c \in Conns, sp \in {S1, S2} : ConnSpan(c, sp)
    \/ \E c \in Conns, b \in WireBatches : ConnBatch(c, b)
    \/ \E c \in Conns : ConnBatchStep(c)
    \/ FlushTrace
    \/ FlushSpan
    \/ FlushTick

SpecStartup == InitStartup /\ [][NextStartup]_vars

(***************************************************************************)
(* Memory-growth analysis.                                                 *)
(***************************************************************************)
\* Nanoseconds in a second: float64(ev.Timestamp-baseTime) / 1e9
Second == 1000000000

\* database.MemoryEvent at a time, on a key of a namespace.
GrowthEvent(id, sp, ts, op, key, ns) ==
    [event_id |-> id, span_id |-> sp, timestamp |-> ts, operation |-> op, key |-> key,
     old_value |-> IF op = "ADD" THEN Null ELSE Some("o"),
     new_value |-> IF op = "DELETE" THEN Null ELSE Some("v"), namespace |-> ns]

\* for _, s := range spans { events, _ := a.store.GetMemoryDiffs(s.SpanID);
\*                           allEvents = append(allEvents, events...) }
RECURSIVE Collect(_, _)
Collect(db, spans) ==
    IF spans = << >> THEN << >>
    ELSE GetMemoryDiffs(db, spans[1].span_id) \o Collect(db, Tail(spans))

\* sort.Slice by Timestamp: the sort is not stable, events of one timestamp
\* come out in any order.
SortSlice(events) ==
    LET n == Len(events)
        perms == {p \in [1 .. n -> 1 .. n] : \A i, j \in 1 .. n : p[i] = p[j] => i = j}
    IN {<< >> \o [i \in 1 .. n |-> events[p[i]]] :
           p \in {q \in perms : \A i, j \in 1 .. n :
                     i < j => events[q[i]].timestamp <= events[q[j]].timestamp}}

\* Mutant: an UPDATE inserts the key as an ADD does.
KeySetStepUpdateAdds(keySet, ev) ==
    IF ev.operation \in {"ADD", "UPDATE"} THEN keySet \cup {ev.namespace \o "." \o ev.key}
    ELSE IF ev.operation = "DELETE" THEN keySet \ {ev.namespace \o "." \o ev.key}
    ELSE keySet

\* switch ev.Operation { case "ADD": keySet[ns+"."+key] = true
\*                       case "DELETE": delete(keySet, ns+"."+key) }
KeySetStep(keySet, ev) ==
    IF ev.operation = "ADD" THEN keySet \cup {ev.namespace \o "." \o ev.key}
    ELSE IF ev.operation = "DELETE" THEN keySet \ {ev.namespace \o "." \o ev.key}
    ELSE keySet

\* keySet after the first i events of the loop.
RECURSIVE KeySetAt(_, _)
KeySetAt(events, i) ==
    IF i = 0 THEN {} ELSE KeySetStep(KeySetAt(events, i - 1), events[i])

\* timeutil.FormatTimestamp, "15:04:05.000": the hour and the minute follow the
\* zone of the host, the model keeps the second and the millisecond.
FormatTimestamp(ns) == [second |-> (ns \div Second) % 60, milli |-> (ns \div 1000000) % 1000]

KeyGrowthEntry(ev) ==
    [Key |-> ev.key, Namespace |-> ev.namespace, Timestamp |-> FormatTimestamp(ev.timestamp),
     Operation |-> ev.operation]

\* math.Round: to the nearest integer, halves away from zero.
Round(x) ==
    IF x.n >= 0 THEN (2 * x.n + x.d) \div (2 * x.d) ELSE -((2 * (-x.n) + x.d) \div (2 * x.d))

\* math.Round(x*scale) / scale
RoundTo(x, scale) == Rat(Round(RMul(x, Float(scale))), scale)

\* int(math.Max(0, x))
Truncate(x) == IF x.n < 0 THEN 0 ELSE x.n \div x.d

MemoryGrowthReport(traceID, keys, events, slope, intercept, rSquared, prediction, unbounded, keyGrowth) ==
    [TraceID |-> traceID, TotalKeys |-> keys, TotalEvents |-> events,
     GrowthRate |-> RoundTo(slope, 100), Slope |-> RoundTo(slope, 1000),
     Intercept |-> RoundTo(intercept, 100), RSquared |-> RoundTo(rSquared, 1000),
     Prediction30Min |-> prediction, IsUnbounded |-> unbounded, KeyGrowth |-> keyGrowth]

\* The locals of a run of AnalyzeMemoryGrowth and the report it returns.
Growth(allEvents, points, report) ==
    [allEvents |-> allEvents, points |-> points, report |-> report]

\* The run over the sorted events, two or more.
Replay(traceID, allEvents) ==
    LET n == Len(allEvents)
        baseTime == allEvents[1].timestamp
        points == << >> \o [i \in 1 .. n |->
                      [timestamp |-> Rat(allEvents[i].timestamp - baseTime, Second),
                       keyCount |-> Float(Cardinality(KeySetAt(allEvents, i)))]]
        fit == linearRegression(points)
        lastTime == points[n].timestamp
        prediction30Min == RAdd(RMul(fit.slope, RAdd(lastTime, Float(1800))), fit.intercept)
        isUnbounded == RLess(Rat(1, 10), fit.slope) /\ RLess(Rat(7, 10), fit.rSquared)
    IN Growth(allEvents, points,
              MemoryGrowthReport(traceID, Cardinality(KeySetAt(allEvents, n)), n, fit.slope,
                                 fit.intercept, fit.rSquared, Truncate(prediction30Min),
                                 isUnbounded,
                                 << >> \o [i \in 1 .. n |-> KeyGrowthEntry(allEvents[i])]))

\* AnalyzeMemoryGrowth: the runs the sort allows.
AnalyzeMemoryGrowth(db, traceID) ==
    LET allEvents == Collect(db, QueryTimeline(db, traceID))
    IN IF Len(allEvents) < 2
       THEN {Growth(allEvents, << >>,
                    MemoryGrowthReport(traceID, 0, Len(allEvents), Float(0), Float(0),
                                       Float(0), 0, FALSE, << >>))}
       ELSE {Replay(traceID, sorted) : sorted \in SortSlice(allEvents)}

(***************************************************************************)
(* Token hotspots, cost attribution and the full report.  A store call of  *)
(* a pass may fail (a closed or busy database): failing names the passes   *)
(* whose store call returns an error.                                      *)
(***************************************************************************)
\* The spans of the trace with operation_type LLM, in timeline order.
LLMSpans(db, traceID) ==
    SelectSeq(QueryTimeline(db, traceID), LAMBDA s : s.operation_type = "LLM")

TotalTokens(s) == s.prompt_tokens + s.completion_tokens

\* zScore > bound, for zScore = (total - mean) / sqrt(variance) and bound = num/10
ZScoreAbove(total, mean, variance, num) ==
    LET diff == RSub(Float(total), mean)
    IN /\ RLess(Float(0), diff)
       /\ RLess(RMul(Rat(num * num, 100), variance), RMul(diff, diff))

\* math.Round(zScore*100) / 100
ZScore(total, mean, variance) ==
    LET diff == RSub(Float(total), mean)
        sq == RDiv(RMul(diff, diff), variance)
        k == CHOOSE k \in 0 .. 10000 :
                /\ ~RLess(RMul(Float(10000), sq), Rat((2 * k - 1) * (2 * k - 1), 4))
                /\ RLess(RMul(Float(10000), sq), Rat((2 * k + 1) * (2 * k + 1), 4))
    IN Rat(k, 100)

TokenHotspot(s, mean, variance) ==
    [SpanID |-> s.span_id, OperationName |-> s.operation_name,
     PromptTokens |-> s.prompt_tokens, CompletionTokens |-> s.completion_tokens,
     TotalTokens |-> TotalTokens(s), ZScore |-> ZScore(TotalTokens(s), mean, variance),
     Severity |-> IF ZScoreAbove(TotalTokens(s), mean, variance, 30) THEN "high"
                  ELSE IF ZScoreAbove(TotalTokens(s), mean, variance, 20) THEN "medium"
                  ELSE "low"]

\* sort.Slice by ZScore descending: hotspots of one score come out in any order.
SortHotspots(hotspots) ==
    LET n == Len(hotspots)
        perms == {p \in [1 .. n -> 1 .. n] : \A i, j \in 1 .. n : p[i] = p[j] => i = j}
    IN {<< >> \o [i \in 1 .. n |-> hotspots[p[i]]] :
           p \in {q \in perms : \A i, j \in 1 .. n :
                     i < j => ~RLess(hotspots[q[i]].ZScore, hotspots[q[j]].ZScore)}}

\* DetectTokenHotspots: the lists the sort allows.
DetectTokenHotspots(db, traceID) ==
    LET llmSpans == LLMSpans(db, traceID)
        n == Float(Len(llmSpans))
        sum == Sum([i \in DOMAIN llmSpans |-> Float(TotalTokens(llmSpans[i]))])
        sumSq == Sum([i \in DOMAIN llmSpans |->
                         Float(TotalTokens(llmSpans[i]) * TotalTokens(llmSpans[i]))])
        mean == RDiv(sum, n)
        variance == RSub(RDiv(sumSq, n), RMul(mean, mean))
    IN IF Len(llmSpans) < 2 THEN {<< >>}
       ELSE IF variance = Float(0) THEN {<< >>}
       ELSE SortHotspots(
                [i \in DOMAIN SelectSeq(llmSpans,
                                        LAMBDA s : ZScoreAbove(TotalTokens(s), mean, variance, 15))
                  |-> TokenHotspot(SelectSeq(llmSpans,
                                             LAMBDA s : ZScoreAbove(TotalTokens(s), mean,
                                                                    variance, 15))[i],
                                   mean, variance)])

\* modelPricing: dollars per 1K tokens, prompt and completion.
ModelPricing(model) ==
    CASE model = "gpt-4" -> <<Rat(3, 100), Rat(6, 100)>>
      [] model = "gpt-4-turbo" -> <<Rat(1, 100), Rat(3, 100)>>
      [] model = "gpt-4o" -> <<Rat(5, 1000), Rat(15, 1000)>>
      [] model = "gpt-4o-mini" -> <<Rat(15, 100000), Rat(6, 10000)>>
      [] model = "gpt-3.5-turbo" -> <<Rat(5, 10000), Rat(15, 10000)>>
      [] model = "claude-3-opus" -> <<Rat(15, 1000), Rat(75, 1000)>>
      [] model = "claude-3-sonnet" -> <<Rat(3, 1000), Rat(15, 1000)>>
      [] model = "claude-3-haiku" -> <<Rat(25, 100000), Rat(125, 100000)>>
      [] OTHER -> <<Rat(1, 100), Rat(3, 100)>>

\* totalCost of one LLM span.
TotalCost(s) ==
    LET pricing == ModelPricing(IF s.model # Null THEN s.model[1] ELSE "unknown")
    IN RAdd(RMul(Rat(s.prompt_tokens, 1000), pricing[1]),
            RMul(Rat(s.completion_tokens, 1000), pricing[2]))

\* AttributeCosts
AttributeCosts(db, traceID) ==
    LET llmSpans == LLMSpans(db, traceID)
        total == Sum([i \in DOMAIN llmSpans |-> TotalCost(llmSpans[i])])
    IN [TraceID |-> traceID,
        TotalPromptTokens |-> Sum([i \in DOMAIN llmSpans |-> Float(llmSpans[i].prompt_tokens)]).n,
        TotalCompletionTokens |->
            Sum([i \in DOMAIN llmSpans |-> Float(llmSpans[i].completion_tokens)]).n,
        TotalEstimatedCost |-> total,
        Entries |-> << >> \o [i \in DOMAIN llmSpans |->
            LET s == llmSpans[i]
                cost == RoundTo(TotalCost(s), 10000)
            IN [SpanID |-> s.span_id, OperationName |-> s.operation_name,
                Model |-> IF s.model # Null THEN s.model[1] ELSE "unknown",
                PromptTokens |-> s.prompt_tokens, CompletionTokens |-> s.completion_tokens,
                EstimatedCost |-> cost,
                Percentage |-> IF RLess(Float(0), total)
                               THEN Rat(Round(RMul(RDiv(cost, total), Float(10000))), 100)
                               ELSE Float(0)]]]

\* SELECT COUNT(*), SUM(CASE ...), ... FROM spans WHERE trace_id = ?, then the
\* count of the memory events joined to the spans of the trace.
GetTraceStats(db, traceID) ==
    LET spans == QueryTimeline(db, traceID)
        Count(type) == Len(SelectSeq(spans, LAMBDA s : s.operation_type = type))
    IN [TraceID |-> traceID, TotalSpans |-> Len(spans), LLMCalls |-> Count("LLM"),
        ToolCalls |-> Count("TOOL"), MemoryOps |-> Count("MEMORY"),
        TotalPromptTokens |-> Sum([i \in DOMAIN spans |-> Float(spans[i].prompt_tokens)]).n,
        TotalCompletionTokens |->
            Sum([i \in DOMAIN spans |-> Float(spans[i].completion_tokens)]).n,
        TotalDurationMs |-> Sum([i \in DOMAIN spans |-> Float(spans[i].duration_ms)]).n,
        MemoryEventCount |-> Len(Collect(db, spans))]

Passes == {"stats", "hotspots", "memory", "cost"}

\* The warnings of the failed passes, in the order FullAnalysis runs them.
FailureWarnings(failing) ==
    (IF "hotspots" \in failing THEN <<"Token hotspot analysis failed">> ELSE << >>)
    \o (IF "memory" \in failing THEN <<"Memory growth analysis failed">> ELSE << >>)
    \o (IF "cost" \in failing THEN <<"Cost attribution failed">> ELSE << >>)

\* One warning for each hotspot of severity high, in the order of the list.
HotspotWarnings(hotspots) ==
    [i \in DOMAIN SelectSeq(hotspots, LAMBDA h : h.Severity = "high") |-> "TOKEN HOTSPOT"]

\* Mutant: a failed pass adds no warning.
FullReportSilent(traceID, stats, hotspots, memGrowth, cost, failing) ==
    [TraceID |-> traceID, Stats |-> stats, TokenHotspots |-> hotspots,
     MemoryGrowth |-> memGrowth, CostAttribution |-> cost,
     Warnings |-> (IF memGrowth # Null /\ memGrowth.IsUnbounded
                   THEN <<"UNBOUNDED MEMORY GROWTH">> ELSE << >>)
                  \o HotspotWarnings(hotspots)]

\* AnalysisReport as FullAnalysis fills it, GeneratedAt (the reading of the
\* clock) left out; a pass that failed hands in Null (the list of hotspots: the
\* empty list).
FullReport(traceID, stats, hotspots, memGrowth, cost, failing) ==
    [TraceID |-> traceID, Stats |-> stats, TokenHotspots |-> hotspots,
     MemoryGrowth |-> memGrowth, CostAttribution |-> cost,
     Warnings |-> FailureWarnings(failing)
                  \o (IF memGrowth # Null /\ memGrowth.IsUnbounded
                      THEN <<"UNBOUNDED MEMORY GROWTH">> ELSE << >>)
                  \o HotspotWarnings(hotspots)]

\* FullAnalysis: the outcomes the sorts of the passes allow.
FullAnalysis(db, traceID, failing) ==
    IF "stats" \in failing THEN {[report |-> Null, err |-> TRUE]}
    ELSE {[report |-> FullReport(traceID, GetTraceStats(db, traceID), hotspots, memGrowth,
                                 IF "cost" \in failing THEN Null
                                 ELSE AttributeCosts(db, traceID),
                                 failing),
           err |-> FALSE] :
             hotspots \in IF "hotspots" \in failing THEN {<< >>}
                          ELSE DetectTokenHotspots(db, traceID),
             memGrowth \in IF "memory" \in failing THEN {Null}
                           ELSE {g.report : g \in AnalyzeMemoryGrowth(db, traceID)}}

CallAnalyzeMemoryGrowth(traceID) ==
    /\ budget > 0
    /\ \E growth \in AnalyzeMemoryGrowth(store, traceID) :
           Read("AnalyzeMemoryGrowth", traceID, growth)

CallDetectTokenHotspots(traceID) ==
    /\ budget > 0
    /\ \E hotspots \in DetectTokenHotspots(store, traceID) :
           Read("DetectTokenHotspots", traceID, hotspots)

CallAttributeCosts(traceID) == Read("AttributeCosts", traceID, AttributeCosts(store, traceID))

CallGetTraceStats(traceID) == Read("GetTraceStats", traceID, GetTraceStats(store, traceID))

CallFullAnalysis(traceID, failing) ==
    /\ budget > 0
    /\ \E out \in FullAnalysis(store, traceID, failing) :
           Read("FullAnalysis", <<traceID, failing>>, out)

AnalysedTraceIds == {"t1", "t2"}

\* The events a trace may hold: e1 and e2 on span s1, e3 on span s2.
GrowthEvents(id) ==
    {GrowthEvent(id, IF id = "e3" THEN "s2" ELSE "s1", ts * Second, op, "k", ns) :
        ts \in IF id = "e2" THEN {1, 2} ELSE {0, 1},
        op \in MemoryOperations,
        ns \in IF id = "e1" THEN {"default"} ELSE {"default", "other"}}

\* Two traces, span s1 in t1, span s2 in t1 or in t2.
GrowthSeeds ==
    LET a == InsertTrace(InsertTrace(EmptyStore, TraceRow("t1", "a", Null, "running", Null)).store,
                         TraceRow("t2", "a", Null, "running", Null)).store
        b == InsertSpan(a, SpanRow("s1", "t1", "LLM", "a", "b", Null, "ok")).store
    IN {InsertSpan(b, SpanRow("s2", tr, "LLM", "b", "b", Null, "ok")).store :
           tr \in AnalysedTraceIds}

PutEvent(db, ev) == IF ev = NoRow THEN db ELSE InsertMemoryEvent(db, ev).store

\* The stores the inserts of up to three events leave behind.
GrowthStores ==
    {PutEvent(PutEvent(PutEvent(db, e1), e2), e3) :
        db \in GrowthSeeds, e1 \in GrowthEvents("e1") \cup {NoRow},
        e2 \in GrowthEvents("e2") \cup {NoRow}, e3 \in GrowthEvents("e3") \cup {NoRow}}

\* One analysis of a store: the analyzer keeps no state and writes nothing.
InitAnalysis == \E db \in GrowthStores : Constructed(db, 1) /\ config.BatchSize = 1

NextAnalysis ==
    \/ \E id \in AnalysedTraceIds : CallAnalyzeMemoryGrowth(id)
    \/ \E id \in AnalysedTraceIds : CallDetectTokenHotspots(id)
    \/ \E id \in AnalysedTraceIds : CallAttributeCosts(id)
    \/ \E id \in AnalysedTraceIds : CallGetTraceStats(id)
    \/ \E id \in AnalysedTraceIds, failing \in SUBSET Passes : CallFullAnalysis(id, failing)

SpecAnalysis == InitAnalysis /\ [][NextAnalysis]_vars

(***************************************************************************)
(* Tasks calling the store API concurrently: a write takes mu.Lock(), a     *)
(* read mu.RLock(), both released by a deferred unlock.  The pool holds one *)
(* connection (SetMaxOpenConns(1)): an open transaction or an open result   *)
(* set keeps it until it ends.                                              *)
(***************************************************************************)
\* Mutant: RLock does not wait for the writer.
CanRLockIgnoresWriter(m) == TRUE

\* sync.RWMutex.RLock goes through when no task holds the write lock.
CanRLock(m) == m.w = 0

\* sync.RWMutex.Lock goes through when no task holds the lock in either mode.
CanLock(m) == m.w = 0 /\ m.r = {}

InWrite(c) == client[c].pc \in {"wlocked", "tx"}
InRead(c) == client[c].pc \in {"rlocked", "scan"}
ConnFree == \A d \in Clients : client[d].pc \notin {"tx", "scan"}

IdleRest ==
    /\ DaemonIdle
    /\ UNCHANGED call

\* s.mu.Lock() at the top of a write operation.
Lock(c, op, arg) ==
    /\ client[c].pc = "idle"
    /\ budget > 0
    /\ CanLock(mu)
    /\ budget' = budget - 1
    /\ mu' = [mu EXCEPT !.w = c]
    /\ client' = [client EXCEPT ![c] = [pc |-> "wlocked", op |-> op, arg |-> arg,
                                         before |-> store]]
    /\ IdleRest
    /\ UNCHANGED store

\* InsertSpan under the lock: one statement in autocommit, then the unlock.
ExecInsertSpan(c) ==
    /\ client[c].pc = "wlocked"
    /\ client[c].op = "InsertSpan"
    /\ ConnFree
    /\ LET r == InsertSpan(store, client[c].arg) IN
       /\ store' = r.store
       /\ client' = [client EXCEPT ![c] = [pc |-> "idle", op |-> @.op, arg |-> @.arg,
                                            before |-> @.before, after |-> r.store,
                                            err |-> r.err]]
    /\ mu' = [mu EXCEPT !.w = 0]
    /\ IdleRest
    /\ UNCHANGED budget

\* BatchInsertSpans: s.db.Begin().
Begin(c) ==
    /\ client[c].pc = "wlocked"
    /\ client[c].op = "BatchInsertSpans"
    /\ ConnFree
    /\ client' = [client EXCEPT ![c] = [pc |-> "tx", op |-> @.op, arg |-> @.arg,
                                         before |-> @.before, tx |-> store, i |-> 1]]
    /\ IdleRest
    /\ UNCHANGED <<store, mu, budget>>

\* BatchInsertSpans: stmt.Exec of the next span inside the transaction; an
\* error returns, and the deferred Rollback and Unlock run.
TxExec(c) ==
    /\ client[c].pc = "tx"
    /\ client[c].i <= Len(client[c].arg)
    /\ LET r == InsertSpan(client[c].tx, client[c].arg[client[c].i]) IN
       IF r.err
       THEN /\ client' = [client EXCEPT ![c] = [pc |-> "idle", op |-> @.op, arg |-> @.arg,
                                                 before |-> @.before, after |-> store,
                                                 err |-> TRUE]]
            /\ mu' = [mu EXCEPT !.w = 0]
       ELSE /\ client' = [client EXCEPT ![c].tx = r.store, ![c].i = @ + 1]
            /\ UNCHANGED mu
    /\ IdleRest
    /\ UNCHANGED <<store, budget>>

\* BatchInsertSpans: tx.Commit(), then the deferred Unlock.
TxCommit(c) ==
    /\ client[c].pc = "tx"
    /\ client[c].i > Len(client[c].arg)
    /\ store' = client[c].tx
    /\ client' = [client EXCEPT ![c] = [pc |-> "idle", op |-> @.op, arg |-> @.arg,
                                         before |-> @.before, after |-> client[c].tx,
                                         err |-> FALSE]]
    /\ mu' = [mu EXCEPT !.w = 0]
    /\ IdleRest
    /\ UNCHANGED budget

\* s.mu.RLock() at the top of QueryTimeline.
RLock(c, traceID) ==
    /\ client[c].pc = "idle"
    /\ budget > 0
    /\ CanRLock(mu)
    /\ budget' = budget - 1
    /\ mu' = [mu EXCEPT !.r = @ \cup {c}]
    /\ client' = [client EXCEPT ![c] = [pc |-> "rlocked", op |-> "QueryTimeline",
                                         arg |-> traceID, snap |-> store]]
    /\ IdleRest
    /\ UNCHANGED store

\* QueryTimeline: s.db.Query opens the result set.
Query(c) ==
    /\ client[c].pc = "rlocked"
    /\ ConnFree
    /\ client' = [client EXCEPT ![c] = [pc |-> "scan", op |-> @.op, arg |-> @.arg,
                                         snap |-> @.snap, rows |-> << >>]]
    /\ IdleRest
    /\ UNCHANGED <<store, mu, budget>>

\* scanSpans: rows.Next() and rows.Scan of the next row; after the last one the
\* deferred rows.Close and RUnlock run.
Scan(c) ==
    /\ client[c].pc = "scan"
    /\ LET tl == QueryTimeline(store, client[c].arg)
           k == Len(client[c].rows) + 1 IN
       IF k <= Len(tl)
       THEN /\ client' = [client EXCEPT ![c].rows = Append(@, tl[k])]
            /\ UNCHANGED mu
       ELSE /\ client' = [client EXCEPT ![c].pc = "idle"]
            /\ mu' = [mu EXCEPT !.r = @ \ {c}]
    /\ IdleRest
    /\ UNCHANGED <<store, budget>>

\* The span lists concurrent writers pass.
LockSpanLists ==
    {<<SpanRow("s1", "t1", "LLM", "b", "b", Some("c"), "error"),
       SpanRow("s2", "t1", "LLM", "a", "a", Null, "ok")>>,
     <<SpanRow("s1", "t1", "LLM", "a", "a", Null, "ok"),
       SpanRow("s2", "t1", "bogus", "a", "a", Null, "ok")>>}

LockSeeds ==
    LET a == InsertTrace(EmptyStore, T1).store
    IN {a, InsertSpan(a, S1).store}

InitLock == \E db \in LockSeeds : Constructed(db, MaxCalls)

NextLock ==
    \/ \E c \in Clients, sps \in LockSpanLists : Lock(c, "BatchInsertSpans", sps)
    \/ \E c \in Clients : Lock(c, "InsertSpan", SpanRow("s2", "t1", "LLM", "b", "b", Null, "ok"))
    \/ \E c \in Clients : ExecInsertSpan(c)
    \/ \E c \in Clients : Begin(c)
    \/ \E c \in Clients : TxExec(c)
    \/ \E c \in Clients : TxCommit(c)
    \/ \E c \in Clients : RLock(c, "t1")
    \/ \E c \in Clients : Query(c)
    \/ \E c \in Clients : Scan(c)

SpecLock == InitLock /\ [][NextLock]_vars

(***************************************************************************)
(* Properties.                                                             *)
(***************************************************************************)
\* Nothing is in a queue or in a flush buffer.
Quiescent ==
    /\ traceChan = << >>
    /\ spanChan = << >>
    /\ memoryEventChan = << >>
    /\ spanBuf = << >>
    /\ memBuf = << >>

NoBatchRunning == \A c \in Conns : conn[c].pc # "batch"

InEnums(a) ==
    CASE a.kind = "trace" -> a.row.status \in TraceStatuses
      [] a.kind = "span" -> a.row.operation_type \in OperationTypes
      [] a.kind = "mem" -> a.row.operation \in MemoryOperations

Stored(a) ==
    CASE a.kind = "trace" -> HasTrace(store, a.row.trace_id)
      [] a.kind = "span" -> HasSpan(store, a.row.span_id)
      [] a.kind = "mem" -> HasEvent(store, a.row.event_id)

\* C1: no accepted item is dropped. Once the queues and buffers are empty in a
\* running daemon, every decoded TRACE, SPAN or MEMORY_EVENT whose row is inside
\* the enums and whose parent was stored when it was decoded is in the store,
\* whatever else shared its flush batch.
C1_NoAcceptedItemDropped ==
    (phase = "running" /\ Quiescent)
        => \A a \in accepted : (InEnums(a) /\ a.parentStored) => Stored(a)

\* C2: when Stop has returned, the flush loop has drained the three queues and
\* flushed its buffers: nothing that was queued or buffered at Stop is left
\* unsubmitted.
C2_ShutdownDrainsQueues == phase = "stopped" => Quiescent

\* C3: when a connection sends only valid rows, each after its parent (TRACE,
\* then SPAN of that trace, then MEMORY_EVENT of that span), then once the
\* queues and buffers are empty all of them are in the store: no child is
\* rejected because its parent, sent earlier, is not stored yet.
C3_ChildAfterParentStored ==
    (phase = "running" /\ Quiescent /\ \A a \in accepted : a.sound)
        => \A a \in accepted : Stored(a)

\* C5: while the running ingester commits a BATCH payload, the payload is in the
\* pending-write log with status pending.
C5_PendingWrittenBeforeCommit ==
    \A c \in Conns :
        conn[c].pc = "batch"
            => \E id \in DOMAIN store.pending_writes :
                  /\ store.pending_writes[id].payload = conn[c].bp.batch
                  /\ store.pending_writes[id].status = "pending"

\* C9: at a quiescent point TracesIngested, SpansIngested and MemoryEvents equal
\* the numbers of traces, spans and memory events this run committed to the
\* store; an item whose commit failed is not counted.
C9_CountersEqualCommits ==
    (Quiescent /\ NoBatchRunning)
        => /\ metrics.TracesIngested = commits.traces
           /\ metrics.SpansIngested = commits.spans
           /\ metrics.MemoryEvents = commits.memory_events

\* C10: a connection task writes to the store only through the queue-overflow
\* fallback; in particular it never calls a batch insert.
C10_ConnectionsWriteOnlyOnOverflow ==
    \A w \in writes : w.task.kind = "conn" => w.via = "overflow"

Range(seq) == {seq[k] : k \in DOMAIN seq}

\* The rows of a batch are in the store.
RowsPresent(b) ==
    /\ \A k \in DOMAIN b.traces : HasTrace(store, b.traces[k].trace_id)
    /\ \A k \in DOMAIN b.spans : HasSpan(store, b.spans[k].span_id)
    /\ \A k \in DOMAIN b.memory_events : HasEvent(store, b.memory_events[k].event_id)
    /\ \A k \in DOMAIN b.tool_calls : b.tool_calls[k] \in Range(store.tool_calls)

ReplayDone == phase \notin {"new", "replay"}

\* C4: replayPending goes through the pending payloads in ascending write id;
\* each payload that decoded and committed through processBatch is marked
\* committed and its rows are in the store; after startup every payload was
\* gone through, and when all of them replayed successfully
\* GetPendingPayloads() is empty.
C4_ReplayCommitsPending ==
    /\ \A k \in DOMAIN replayed :
          /\ replayed[k].id = replay.list[k].WriteID
          /\ k > 1 => replayed[k - 1].id < replayed[k].id
          /\ replayed[k].ok =>
                /\ store.pending_writes[replayed[k].id].status = "committed"
                /\ RowsPresent(store.pending_writes[replayed[k].id].payload)
    /\ ReplayDone =>
          /\ Len(replayed) = Len(store.pending_writes)
          /\ (\A k \in DOMAIN replayed : replayed[k].ok) => GetPendingPayloads(store) = << >>

\* C4 witness: startup is over, two payloads replayed successfully, one of them
\* holding a span, and no payload is pending.
C4_Witness ==
    /\ phase = "running"
    /\ Len(replayed) = 2
    /\ \A k \in DOMAIN replayed : replayed[k].ok
    /\ \E k \in DOMAIN replayed : store.pending_writes[replayed[k].id].payload.spans # << >>
    /\ GetPendingPayloads(store) = << >>

\* C6: a payload that fails to decode or to commit keeps status pending, and
\* replay goes on with the next payload: the loop never skips a payload, and the
\* daemon is running only after every payload was gone through.
C6_ReplayFailureKeepsPending ==
    /\ \A k \in DOMAIN replayed :
          ~replayed[k].ok => store.pending_writes[replayed[k].id].status = "pending"
    /\ (phase = "replay" /\ replay.bp = NoBatch) => replay.idx = Len(replayed) + 1
    /\ ReplayDone => Len(replayed) = Len(replay.list)

\* C6 witness: the daemon runs although the first of two payloads failed; it is
\* still pending, and the second one was replayed after it and committed.
C6_Witness ==
    /\ phase = "running"
    /\ Len(replayed) = 2
    /\ ~replayed[1].ok
    /\ replayed[2].ok
    /\ store.pending_writes[1].status = "pending"
    /\ store.pending_writes[2].status = "committed"

IsPrefix(s1, s2) == Len(s1) <= Len(s2) /\ \A k \in DOMAIN s1 : s1[k] = s2[k]

\* The sub-operations of processBatch on batch b, in the documented order.
Plan(b) ==
    [k \in 1 .. Len(b.traces) |-> <<"traces", k>>]
    \o (IF Len(b.spans) > 0 THEN << <<"spans", 1>> >> ELSE << >>)
    \o (IF Len(b.memory_events) > 0 THEN << <<"mems", 1>> >> ELSE << >>)
    \o [k \in 1 .. Len(b.tool_calls) |-> <<"tools", k>>]
    \o << <<"commit", 1>> >>

\* The rows a completed sub-operation wrote are in the store.
Kept(b, tag) ==
    CASE tag[1] = "traces" -> HasTrace(store, b.traces[tag[2]].trace_id)
      [] tag[1] = "spans" -> \A k \in DOMAIN b.spans : HasSpan(store, b.spans[k].span_id)
      [] tag[1] = "mems" ->
            \A k \in DOMAIN b.memory_events : HasEvent(store, b.memory_events[k].event_id)
      [] tag[1] = "tools" -> b.tool_calls[tag[2]] \in Range(store.tool_calls)
      [] OTHER -> TRUE

Finished == {t \in Tasks : last[t] # NoBatch}

\* C7: a BATCH with K spans and M memory events, valid references and no id
\* collisions returns without error, adds exactly K rows to spans and M rows to
\* memory_events, adds K to SpansIngested, M to MemoryEvents and one to
\* BatchesCommitted.
C7_BatchRoundTrip ==
    \A t \in Finished :
        (last[t].wf /\ last[t].fresh) =>
            /\ last[t].stage = "ok"
            /\ last[t].d.spans = Len(last[t].batch.spans)
            /\ last[t].d.memory_events = Len(last[t].batch.memory_events)
            /\ last[t].d.SpansIngested = Len(last[t].batch.spans)
            /\ last[t].d.MemoryEvents = Len(last[t].batch.memory_events)
            /\ last[t].d.BatchesCommitted = 1
            /\ RowsPresent(last[t].batch)

\* C7 witness: a connection finished a well-formed, collision-free BATCH of two
\* spans and two memory events.
C7_Witness ==
    \E t \in Finished :
        /\ t.kind = "conn"
        /\ last[t].wf
        /\ last[t].fresh
        /\ Len(last[t].batch.spans) = 2
        /\ Len(last[t].batch.memory_events) = 2
        /\ last[t].d.spans = 2
        /\ metrics.SpansIngested >= 2

\* C8: processBatch goes through traces (one by one), spans, memory events and
\* tool calls (one by one) in that order; it returns an error exactly when a
\* sub-operation failed, right there: what completed before stays in the store,
\* nothing after it is attempted, and BatchesCommitted is incremented (by one)
\* only when every sub-operation succeeded.
C8_BatchOrderAndFirstError ==
    /\ \A c \in Conns :
          conn[c].pc = "batch" =>
              LET bp == conn[c].bp IN
              /\ IsPrefix(bp.done, Plan(bp.batch))
              /\ Len(bp.done) < Len(Plan(bp.batch))
              /\ <<bp.stage, bp.i>> = Plan(bp.batch)[Len(bp.done) + 1]
              /\ bp.d.BatchesCommitted = 0
              /\ \A k \in DOMAIN bp.done : Kept(bp.batch, bp.done[k])
    /\ \A t \in Finished :
          /\ IsPrefix(last[t].done, Plan(last[t].batch))
          /\ last[t].stage = "ok" <=> last[t].done = Plan(last[t].batch)
          /\ last[t].stage = "err" <=> Len(last[t].done) < Len(Plan(last[t].batch))
          /\ last[t].d.BatchesCommitted = IF last[t].stage = "ok" THEN 1 ELSE 0
          /\ \A k \in DOMAIN last[t].done : Kept(last[t].batch, last[t].done[k])

\* C8 witness: a BATCH failed at its memory events after its traces and its
\* spans were committed; they are still in the store and BatchesCommitted is 0.
C8_Witness ==
    \E t \in Finished :
        /\ last[t].stage = "err"
        /\ last[t].done = <<<<"traces", 1>>, <<"spans", 1>>>>
        /\ Len(last[t].batch.memory_events) > 0
        /\ Len(last[t].batch.tool_calls) > 0
        /\ HasSpan(store, "s1")
        /\ store.tool_calls = << >>
        /\ metrics.BatchesCommitted = 0

\* C11: no panic during shutdown. In no interleaving of Stop with a connection
\* task that is still reading or processing a message does the task offer an item
\* to a queue Stop has already closed.
C11_NoSendOnClosedQueue == phase # "panicked"

\* C12: the store serializes access with a reader/writer exclusion. At most one
\* write operation is in progress, no read overlaps a write, the store does not
\* change while a read is in progress, and so a finished QueryTimeline returned
\* the timeline of one committed store state (never a mixture of the states
\* before and after a batch), and a finished BatchInsertSpans took the store from
\* the state at its Lock to its all-or-nothing result in one step.
C12_ReadersSeeNoTornWrite ==
    /\ mu.w # 0 => mu.r = {}
    /\ \A c, d \in Clients : (InWrite(c) /\ InWrite(d)) => c = d
    /\ \A c, d \in Clients : ~(InWrite(c) /\ InRead(d))
    /\ \A c \in Clients :
          /\ InRead(c) => store = client[c].snap
          /\ (client[c].pc = "idle" /\ client[c].op = "QueryTimeline")
                => client[c].rows = QueryTimeline(client[c].snap, client[c].arg)
          /\ (client[c].pc = "idle" /\ client[c].op = "BatchInsertSpans")
                => LET r == BatchInsertSpans(client[c].before, client[c].arg) IN
                   /\ client[c].err = r.err
                   /\ client[c].after = r.store

\* C12 witness: a reader is scanning its second row while the other task, whose
\* last BatchInsertSpans committed two spans, waits with no lock.
C12_Witness ==
    \E c, d \in Clients :
        /\ client[c].pc = "scan"
        /\ Len(client[c].rows) = 1
        /\ Len(QueryTimeline(store, "t1")) = 2
        /\ client[d].pc = "idle"
        /\ client[d].op = "BatchInsertSpans"
        /\ ~client[d].err
        /\ client[d].before # client[d].after

\* Element k of a span list cannot be inserted: a value outside an enum, or a
\* new span id whose trace is not stored.
SpanRejected(db, list, k) ==
    \/ list[k].operation_type \notin OperationTypes
    \/ list[k].status \notin SpanStatuses
    \/ /\ ~HasSpan(db, list[k].span_id)
       /\ \A j \in 1 .. k - 1 : list[j].span_id # list[k].span_id
       /\ ~HasTrace(db, list[k].trace_id)

\* Element k of a memory event list cannot be inserted: a value outside the
\* enum, an event id that is stored or earlier in the list, or a span that is
\* not stored.
EventRejected(db, list, k) ==
    \/ list[k].operation \notin MemoryOperations
    \/ HasEvent(db, list[k].event_id)
    \/ \E j \in 1 .. k - 1 : list[j].event_id = list[k].event_id
    \/ ~HasSpan(db, list[k].span_id)

\* C13: BatchInsertSpans and BatchInsertMemoryEvents are all-or-nothing. The
\* call returns an error exactly when some element of the list cannot be
\* inserted, and then the store is exactly as before the call; otherwise every
\* element of the list is persisted.
C13_BatchAllOrNothing ==
    /\ call.op = "BatchInsertSpans" =>
          /\ call.err <=> \E k \in DOMAIN call.arg : SpanRejected(call.before, call.arg, k)
          /\ call.err => store = call.before
          /\ ~call.err => \A k \in DOMAIN call.arg : HasSpan(store, call.arg[k].span_id)
    /\ call.op = "BatchInsertMemoryEvents" =>
          /\ call.err <=> \E k \in DOMAIN call.arg : EventRejected(call.before, call.arg, k)
          /\ call.err => store = call.before
          /\ ~call.err =>
                \A k \in DOMAIN call.arg :
                    store.memory_events[call.arg[k].event_id] = call.arg[k]

\* C13 witness: a batch of two memory events failed at its second element,
\* whose first element alone would have been inserted, and nothing was stored.
C13_Witness ==
    /\ call.op = "BatchInsertMemoryEvents"
    /\ call.err
    /\ Len(call.arg) = 2
    /\ ~InsertMemoryEvent(call.before, call.arg[1]).err
    /\ ~HasEvent(store, call.arg[1].event_id)

\* N separate InsertSpan calls in list order, up to the first one that fails.
RECURSIVE InsertSpansInOrder(_, _)
InsertSpansInOrder(db, list) ==
    IF list = << >> THEN Ok(db)
    ELSE LET r == InsertSpan(db, Head(list)) IN
         IF r.err THEN r ELSE InsertSpansInOrder(r.store, Tail(list))

\* C14: BatchInsertSpans(list) leaves the store in the state N successful
\* InsertSpan calls in list order leave it in, the upsert rule being applied per
\* element, in list order, when span ids collide with each other or with stored
\* spans; it succeeds exactly when those N calls all succeed.
C14_BatchEqualsSingleInserts ==
    call.op = "BatchInsertSpans" =>
        LET single == InsertSpansInOrder(call.before, call.arg) IN
        /\ call.err = single.err
        /\ ~single.err => store = single.store

\* C14 witness: a successful batch of two different spans with the same id, an
\* id that was stored before the call, changed the stored span.
C14_Witness ==
    /\ call.op = "BatchInsertSpans"
    /\ ~call.err
    /\ Len(call.arg) = 2
    /\ call.arg[1].span_id = call.arg[2].span_id
    /\ call.arg[1] # call.arg[2]
    /\ HasSpan(call.before, call.arg[1].span_id)
    /\ store # call.before

\* C15: InsertTrace with an existing trace_id sets status to the new value,
\* end_time to the new value only if that is non-null, metadata to the new value
\* only if that is non-null (the stored value is kept otherwise), and leaves
\* agent_name and start_time unchanged; with a new trace_id it creates the trace
\* with all given fields. Nothing else in the store changes.
C15_InsertTraceUpsert ==
    (call.op = "InsertTrace" /\ ~call.err) =>
        LET t == call.arg
            old == call.before.traces[t.trace_id]
            new == store.traces[t.trace_id]
        IN /\ store = [call.before EXCEPT !.traces[t.trace_id] = new]
           /\ IF HasTrace(call.before, t.trace_id)
              THEN /\ new.trace_id = t.trace_id
                   /\ new.status = t.status
                   /\ new.end_time = IF t.end_time # Null THEN t.end_time ELSE old.end_time
                   /\ new.metadata = IF t.metadata # Null THEN t.metadata ELSE old.metadata
                   /\ new.agent_name = old.agent_name
                   /\ new.start_time = old.start_time
              ELSE new = t

\* C15 witness: an upsert with a null end_time, a non-null metadata and another
\* agent_name on a stored trace whose end_time was set.
C15_Witness ==
    /\ call.op = "InsertTrace"
    /\ ~call.err
    /\ HasTrace(call.before, call.arg.trace_id)
    /\ call.before.traces[call.arg.trace_id].end_time # Null
    /\ call.arg.end_time = Null
    /\ call.arg.metadata # Null
    /\ call.arg.agent_name # call.before.traces[call.arg.trace_id].agent_name
    /\ call.arg.status # call.before.traces[call.arg.trace_id].status

\* The columns of spans an upsert on an existing span_id leaves alone.
KeptSpanColumns ==
    {"span_id", "trace_id", "parent_span_id", "operation_type", "operation_name",
     "start_time", "prompt", "prompt_tokens", "model", "temperature", "metadata"}

\* C16: InsertSpan with an existing span_id updates exactly duration_ms,
\* completion (the stored completion is kept when the new one is null),
\* completion_tokens, status and error_message, and leaves every other column of
\* the stored span, and everything else in the store (but the span's entry in
\* the full-text index, which follows it), unchanged.
C16_InsertSpanUpsertFrame ==
    (call.op = "InsertSpan" /\ ~call.err /\ HasSpan(call.before, call.arg.span_id)) =>
        LET s == call.arg
            old == call.before.spans[s.span_id]
            new == store.spans[s.span_id]
        IN /\ [store EXCEPT !.spans_fts = call.before.spans_fts]
                 = [call.before EXCEPT !.spans[s.span_id] = new]
           /\ DOMAIN new = DOMAIN old
           /\ \A col \in KeptSpanColumns : new[col] = old[col]
           /\ new.duration_ms = s.duration_ms
           /\ new.completion = IF s.completion # Null THEN s.completion ELSE old.completion
           /\ new.completion_tokens = s.completion_tokens
           /\ new.status = s.status
           /\ new.error_message = s.error_message

\* C16 witness: an upsert with a null completion and other values in every
\* column on a stored span whose completion was set.
C16_Witness ==
    /\ call.op = "InsertSpan"
    /\ ~call.err
    /\ HasSpan(call.before, call.arg.span_id)
    /\ call.before.spans[call.arg.span_id].completion # Null
    /\ call.arg.completion = Null
    /\ call.arg.operation_name # call.before.spans[call.arg.span_id].operation_name
    /\ call.arg.duration_ms # call.before.spans[call.arg.span_id].duration_ms
    /\ call.arg.status # call.before.spans[call.arg.span_id].status

\* The operations of the store API (a DELETE statement is not one of them).
StoreOps ==
    {"InsertTrace", "InsertSpan", "InsertMemoryEvent", "InsertToolCall",
     "BatchInsertSpans", "BatchInsertMemoryEvents", "GetMemoryDiffs",
     "GetMemoryTimeline"}

\* C17: memory events and tool calls are append-only. Inserting a memory event
\* whose event_id is already stored, singly or inside a batch, returns an error
\* and leaves the store unchanged; and no store operation modifies or removes a
\* memory event or a tool call that was stored before it.
C17_EventsAndToolCallsAppendOnly ==
    /\ (call.op = "InsertMemoryEvent" /\ HasEvent(call.before, call.arg.event_id))
          => (call.err /\ store = call.before)
    /\ (call.op = "BatchInsertMemoryEvents"
           /\ \E k \in DOMAIN call.arg : HasEvent(call.before, call.arg[k].event_id))
          => (call.err /\ store = call.before)
    /\ call.op \in StoreOps =>
          /\ \A e \in EventIds :
                HasEvent(call.before, e) => store.memory_events[e] = call.before.memory_events[e]
          /\ IsPrefix(call.before.tool_calls, store.tool_calls)

\* C17 witness: an otherwise valid memory event with other values than the
\* stored event of the same id was rejected.
C17_Witness ==
    /\ call.op = "InsertMemoryEvent"
    /\ HasEvent(call.before, call.arg.event_id)
    /\ call.arg # call.before.memory_events[call.arg.event_id]
    /\ call.arg.operation \in MemoryOperations
    /\ HasSpan(call.before, call.arg.span_id)
    /\ call.before.tool_calls # << >>
    /\ call.err

\* Every stored span names a stored trace, every stored memory event and tool
\* call a stored span.
RefIntegrity(db) ==
    /\ \A sp \in SpanIds : HasSpan(db, sp) => HasTrace(db, db.spans[sp].trace_id)
    /\ \A e \in EventIds : HasEvent(db, e) => HasSpan(db, db.memory_events[e].span_id)
    /\ \A k \in DOMAIN db.tool_calls : HasSpan(db, db.tool_calls[k].span_id)

Rejected == call.err /\ store = call.before

\* Memory events and tool calls without a stored span are rejected, and a
\* deleted trace takes its spans, their memory events and tool calls with it.
ChildrenAndCascade ==
    /\ (call.op = "InsertMemoryEvent" /\ ~HasSpan(call.before, call.arg.span_id)) => Rejected
    /\ (call.op = "InsertToolCall" /\ ~HasSpan(call.before, call.arg.span_id)) => Rejected
    /\ (call.op = "BatchInsertMemoryEvents"
           /\ \E k \in DOMAIN call.arg : ~HasSpan(call.before, call.arg[k].span_id))
          => Rejected
    /\ call.op = "DELETE" =>
          /\ ~HasTrace(store, call.arg)
          /\ \A sp \in SpanIds :
                (HasSpan(call.before, sp) /\ call.before.spans[sp].trace_id = call.arg)
                    => /\ ~HasSpan(store, sp)
                       /\ \A e \in EventIds :
                             (HasEvent(call.before, e)
                                /\ call.before.memory_events[e].span_id = sp)
                                 => ~HasEvent(store, e)
                       /\ \A k \in DOMAIN store.tool_calls : store.tool_calls[k].span_id # sp

\* C18 as stated: referential integrity holds in every store state; an insert
\* (single or batch) whose parent does not exist is rejected with an error and
\* changes nothing; deleting a trace removes its spans and their memory events
\* and tool calls.
C18_OrphanInsertRejected ==
    /\ RefIntegrity(store)
    /\ (call.op = "InsertSpan" /\ ~HasTrace(call.before, call.arg.trace_id)) => Rejected
    /\ (call.op = "BatchInsertSpans"
           /\ \E k \in DOMAIN call.arg : ~HasTrace(call.before, call.arg[k].trace_id))
          => Rejected
    /\ ChildrenAndCascade

\* C18, amended: referential integrity holds in every store state; an insert
\* (single or batch) that would create a row whose parent does not exist is
\* rejected with an error and changes nothing, while an InsertSpan on a stored
\* span_id is an update that keeps the stored trace_id whatever the new one is;
\* deleting a trace removes its spans and their memory events and tool calls.
C18_ReferentialIntegrity ==
    /\ RefIntegrity(store)
    /\ (call.op = "InsertSpan" /\ ~HasTrace(call.before, call.arg.trace_id)) =>
          IF HasSpan(call.before, call.arg.span_id)
          THEN /\ ~call.err
               /\ store.spans[call.arg.span_id].trace_id
                     = call.before.spans[call.arg.span_id].trace_id
          ELSE Rejected
    /\ (call.op = "BatchInsertSpans"
           /\ \E k \in DOMAIN call.arg :
                 /\ ~HasTrace(call.before, call.arg[k].trace_id)
                 /\ ~HasSpan(call.before, call.arg[k].span_id)
                 /\ \A j \in 1 .. k - 1 : call.arg[j].span_id # call.arg[k].span_id)
          => Rejected
    /\ ChildrenAndCascade

\* C18 witness: the DELETE of a trace with two spans, a memory event and a tool
\* call left none of them.
C18_Witness ==
    /\ call.op = "DELETE"
    /\ HasTrace(call.before, call.arg)
    /\ \A sp \in SpanIds : HasSpan(call.before, sp) /\ ~HasSpan(store, sp)
    /\ \E e \in EventIds : HasEvent(call.before, e)
    /\ \A e \in EventIds : ~HasEvent(store, e)
    /\ call.before.tool_calls # << >>
    /\ store.tool_calls = << >>

\* The value-presence rule of a memory event.
ValuePresence(e) ==
    /\ e.operation = "ADD" => e.old_value = Null
    /\ e.operation = "DELETE" => e.new_value = Null
    /\ e.operation = "UPDATE" => (e.old_value # Null /\ e.new_value # Null)

\* C19: every stored memory event satisfies the value-presence rule (ADD: no
\* old_value; DELETE: no new_value; UPDATE: both present), and no event
\* violating it is returned by GetMemoryDiffs or GetMemoryTimeline.
C19_ValuePresence ==
    /\ \A e \in EventIds : HasEvent(store, e) => ValuePresence(store.memory_events[e])
    /\ call.op \in {"GetMemoryDiffs", "GetMemoryTimeline"}
          => \A k \in DOMAIN call.rows : ValuePresence(call.rows[k])

\* C20: trace status follows running -> completed | failed. An InsertTrace on a
\* stored trace whose status is completed or failed leaves the status as it is:
\* the trace never goes back to running nor over to the other terminal status.
C20_TraceStatusTerminal ==
    (call.op = "InsertTrace"
       /\ HasTrace(call.before, call.arg.trace_id)
       /\ call.before.traces[call.arg.trace_id].status \in {"completed", "failed"})
        => store.traces[call.arg.trace_id].status
              = call.before.traces[call.arg.trace_id].status

LogOps == {"WritePendingPayload", "CommitPendingPayload", "GetPendingPayloads"}

\* C21: a pending-write row's status only moves pending -> committed or
\* pending -> failed; committed and failed are terminal: no call (a
\* CommitPendingPayload applied again or applied to a failed row included) moves
\* a row out of them, and the store's own operations write only the statuses
\* pending and committed.
C21_PendingStatusTerminal ==
    call.op # "none" =>
        /\ \A id \in DOMAIN call.before.pending_writes :
              /\ id \in DOMAIN store.pending_writes
              /\ call.before.pending_writes[id].status \in {"committed", "failed"}
                    => store.pending_writes[id].status = call.before.pending_writes[id].status
        /\ call.op \in StoreOps \cup LogOps =>
              \A id \in DOMAIN store.pending_writes :
                  \/ /\ id \in DOMAIN call.before.pending_writes
                     /\ store.pending_writes[id].status = call.before.pending_writes[id].status
                  \/ store.pending_writes[id].status \in {"pending", "committed"}

\* The positions at which GetPendingPayloads() on db returns write id.
Listed(db, id) ==
    {k \in DOMAIN GetPendingPayloads(db) : GetPendingPayloads(db)[k].WriteID = id}

\* C22: the pending log round-trips. WritePendingPayload returns an id greater
\* than every id written before, and GetPendingPayloads() then holds that id
\* exactly once with the payload written; every id it held stays, with its
\* payload, until CommitPendingPayload of that id (or a mark by hand), after
\* which the id is never returned again; the list holds pending rows only, in
\* ascending id order.
C22_PendingLogRoundTrip ==
    LET pend == GetPendingPayloads(store)
        was == GetPendingPayloads(call.before)
    IN
    /\ \A j, k \in DOMAIN pend : j < k => pend[j].WriteID < pend[k].WriteID
    /\ \A k \in DOMAIN pend :
          /\ pend[k].WriteID \in DOMAIN store.pending_writes
          /\ store.pending_writes[pend[k].WriteID] =
                [payload |-> pend[k].Payload, status |-> "pending"]
    /\ call.op = "WritePendingPayload" =>
          /\ \A id \in DOMAIN call.before.pending_writes : call.ret > id
          /\ Cardinality(Listed(store, call.ret)) = 1
          /\ \A k \in Listed(store, call.ret) : pend[k].Payload = call.arg
    /\ call.op = "CommitPendingPayload" => Listed(store, call.arg) = {}
    /\ call.op = "GetPendingPayloads" => call.rows = pend
    /\ call.op # "none" =>
          /\ \A k \in DOMAIN was :
                \/ call.op \in {"CommitPendingPayload", "UPDATE"} /\ call.arg = was[k].WriteID
                \/ \E j \in DOMAIN pend : pend[j] = was[k]
          /\ \A id \in DOMAIN call.before.pending_writes :
                Listed(call.before, id) = {} => Listed(store, id) = {}

\* A second write got a larger id, then the first id was committed and left the
\* list while the second stayed.
C22_Witness ==
    /\ call.op = "CommitPendingPayload"
    /\ Listed(call.before, call.arg) # {}
    /\ Len(GetPendingPayloads(store)) = 1
    /\ GetPendingPayloads(store)[1].WriteID > call.arg

\* The positions of a list of rows whose column col holds id.
At(rows, col, id) == {k \in DOMAIN rows : rows[k][col] = id}

Ascending(rows, col) == \A j, k \in DOMAIN rows : j < k => rows[j][col] <= rows[k][col]

\* What holds of the timeline queries whichever way a span counts as inserted:
\* results are non-decreasing in time, hold rows of the asked trace or span only,
\* what a call returned is the query on the store, and every successfully
\* inserted memory event is in GetMemoryDiffs of its span exactly once.
TimelinesSortedAndOwn ==
    /\ \A tr \in TraceIds :
          /\ Ascending(QueryTimeline(store, tr), "start_time")
          /\ \A k \in DOMAIN QueryTimeline(store, tr) :
                /\ QueryTimeline(store, tr)[k].trace_id = tr
                /\ HasSpan(store, QueryTimeline(store, tr)[k].span_id)
    /\ \A sp \in SpanIds :
          /\ Ascending(GetMemoryDiffs(store, sp), "timestamp")
          /\ \A k \in DOMAIN GetMemoryDiffs(store, sp) :
                /\ GetMemoryDiffs(store, sp)[k].span_id = sp
                /\ HasEvent(store, GetMemoryDiffs(store, sp)[k].event_id)
    /\ call.op = "QueryTimeline" => call.rows = QueryTimeline(store, call.arg)
    /\ call.op = "GetMemoryDiffs" => call.rows = GetMemoryDiffs(store, call.arg)
    /\ (call.op = "InsertMemoryEvent" /\ ~call.err) =>
          At(GetMemoryDiffs(store, call.arg.span_id), "event_id", call.arg.event_id)
             = {k \in DOMAIN GetMemoryDiffs(store, call.arg.span_id) :
                   GetMemoryDiffs(store, call.arg.span_id)[k] = call.arg}
    /\ \A e \in EventIds : HasEvent(store, e) =>
          Cardinality(At(GetMemoryDiffs(store, store.memory_events[e].span_id),
                         "event_id", e)) = 1

\* C23 as stated: after every InsertSpan that returns no error, QueryTimeline
\* of the trace_id the span was passed with holds the span exactly once, in
\* non-decreasing start_time order and with no row of another trace; likewise
\* GetMemoryDiffs of an inserted event's span_id, by timestamp.
C23_InsertedSpanInItsTimeline ==
    /\ TimelinesSortedAndOwn
    /\ (call.op = "InsertSpan" /\ ~call.err) =>
          Cardinality(At(QueryTimeline(store, call.arg.trace_id), "span_id",
                         call.arg.span_id)) = 1

\* C23 amended: every stored span is in QueryTimeline of its stored trace_id
\* exactly once (after an InsertSpan of a new span_id that is the trace_id passed;
\* an InsertSpan on a stored span_id keeps the span under the trace it was first
\* inserted with), in non-decreasing start_time order and with no row of another
\* trace; every inserted memory event is in GetMemoryDiffs of its span_id exactly
\* once, in non-decreasing timestamp order and with no row of another span.
C23_TimelinesCompleteAndSorted ==
    /\ TimelinesSortedAndOwn
    /\ \A sp \in SpanIds : HasSpan(store, sp) =>
          /\ Cardinality(At(QueryTimeline(store, store.spans[sp].trace_id), "span_id", sp)) = 1
          /\ \A k \in At(QueryTimeline(store, store.spans[sp].trace_id), "span_id", sp) :
                QueryTimeline(store, store.spans[sp].trace_id)[k] = store.spans[sp]
    /\ (call.op = "InsertSpan" /\ ~call.err) =>
          /\ HasSpan(store, call.arg.span_id)
          /\ store.spans[call.arg.span_id].trace_id =
                IF HasSpan(call.before, call.arg.span_id)
                THEN call.before.spans[call.arg.span_id].trace_id
                ELSE call.arg.trace_id

\* A span was inserted into a trace that held a later span and a span of the
\* other trace is stored too; two events of one span are stored with the later
\* one under the smaller event id.
C23_Witness ==
    /\ call.op = "InsertSpan" /\ ~call.err
    /\ ~HasSpan(call.before, call.arg.span_id)
    /\ call.arg.span_id = "s2"
    /\ HasSpan(store, "s1")
    /\ store.spans["s1"].trace_id = call.arg.trace_id
    /\ store.spans["s1"].start_time > call.arg.start_time
    /\ Len(QueryTimeline(store, call.arg.trace_id)) = 2

\* The stored traces a filter asks for: every field it supplies matches.
Wanted(db, f) ==
    {t \in StoredTraces(db) :
        /\ f.AgentName # Null => db.traces[t].agent_name = f.AgentName[1]
        /\ f.Status # Null => db.traces[t].status = f.Status[1]
        /\ f.Since # Null => f.Since[1] <= db.traces[t].start_time
        /\ f.Until # Null => db.traces[t].start_time <= f.Until[1]}

\* C24: QueryTraces(filter) returns stored traces that match every supplied
\* filter field (agent_name and status equal, since <= start_time <= until), each
\* once, in descending start_time order: the rows left of the matching traces so
\* ordered after skipping offset rows and truncating to limit, the limit being 100
\* when none is given (limit <= 0).
C24_QueryTracesFilterOrderLimit ==
    call.op = "QueryTraces" =>
        LET f == call.arg
            rows == call.rows
            want == Wanted(store, f)
            skip == IF f.Offset > 0 THEN f.Offset ELSE 0
            limit == IF f.Limit <= 0 THEN 100 ELSE f.Limit
            left == IF Cardinality(want) > skip THEN Cardinality(want) - skip ELSE 0
        IN
        /\ Len(rows) = IF left < limit THEN left ELSE limit
        /\ \A k \in DOMAIN rows :
              /\ rows[k].trace_id \in want
              /\ rows[k] = store.traces[rows[k].trace_id]
              /\ \A j \in DOMAIN rows :
                    /\ j < k => rows[j].start_time >= rows[k].start_time
                    /\ j # k => rows[j].trace_id # rows[k].trace_id
              /\ Cardinality({t \in want : store.traces[t].start_time > rows[k].start_time})
                    < skip + k
              /\ Cardinality({t \in want : store.traces[t].start_time >= rows[k].start_time})
                    >= skip + k

\* A query with no limit and one row to skip on a table of more than 100 traces
\* returned 100 of them.
C24_Witness ==
    /\ call.op = "QueryTraces"
    /\ call.arg.Limit = 0 /\ call.arg.Offset = 1 /\ call.arg.Status # Null
    /\ Cardinality(StoredTraces(store)) > Cardinality(Wanted(store, call.arg))
    /\ Cardinality(Wanted(store, call.arg)) > Len(call.rows)
    /\ Len(call.rows) > 2

\* A step that put nothing on a queue and counted nothing as ingested: if a
\* single message was dispatched in it, processMessage returned an error.
NothingIngested ==
    /\ UNCHANGED <<traceChan, spanChan, memoryEventChan>>
    /\ metrics'.TracesIngested = metrics.TracesIngested
    /\ metrics'.SpansIngested = metrics.SpansIngested
    /\ metrics'.MemoryEvents = metrics.MemoryEvents

\* C25: every message whose type, length and payload were read completely gets
\* exactly one ACK byte 0x00 after its dispatch and the task is back at the top
\* of its loop, whether processing succeeded or failed; a message that does not
\* decode or has an unknown type (nothing of it is ingested) adds exactly one to
\* ErrorCount and leaves the connection open.
C25_AckAfterEveryMessage ==
    [][\A c \in Conns :
          /\ conn'[c].read = conn[c].read + 1 =>
                \/ conn'[c].pc = "batch"
                \/ /\ conn'[c].pc = "top"
                   /\ conn'[c].acks = Append(conn[c].acks, 0)
          /\ (conn[c].pc = "batch" /\ conn'[c].pc # "batch") =>
                /\ conn'[c].pc = "top"
                /\ conn'[c].acks = Append(conn[c].acks, 0)
          /\ conn'[c].acks # conn[c].acks =>
                /\ conn'[c].acks = Append(conn[c].acks, 0)
                /\ Len(conn'[c].acks) = conn'[c].read
          /\ (conn'[c].read = conn[c].read + 1 /\ conn'[c].pc # "batch"
                 /\ phase' = phase /\ NothingIngested) =>
                /\ metrics'.ErrorCount = metrics.ErrorCount + 1
                /\ conn'[c].pc = "top"]_vars

\* C26: a frame whose header declares more than 10 MiB is rejected: its payload
\* is neither read nor dispatched, no ACK is written, ErrorCount grows by exactly
\* one and the connection is closed; a frame declaring 10 MiB or less, 10 MiB
\* itself included, is read and dispatched and the connection stays open.
C26_OversizeFrameRejected ==
    [][\A c \in Conns :
          (/\ conn[c].pc = "reading"
           /\ conn'[c].len # Null
           /\ conn'[c].len # conn[c].len \/ conn'[c].read # conn[c].read) =>
              IF conn'[c].len[1] > 10 * 1024 * 1024
              THEN /\ conn'[c].read = conn[c].read
                   /\ conn'[c].acks = conn[c].acks
                   /\ conn'[c].pc = "closed"
                   /\ metrics' = [metrics EXCEPT !.ErrorCount = @ + 1]
                   /\ UNCHANGED <<store, traceChan, spanChan, memoryEventChan, accepted>>
              ELSE /\ conn'[c].read = conn[c].read + 1
                   /\ conn'[c].pc # "closed"]_vars

\* A frame declaring exactly 10 MiB was accepted and acknowledged, then one
\* declaring a byte more closed the connection.
C26_Witness ==
    \E c \in Conns :
        /\ conn[c].pc = "closed"
        /\ conn[c].len = Some(MaxPayloadLen + 1)
        /\ conn[c].read = 1
        /\ conn[c].acks = <<AckByte>>
        /\ metrics.ErrorCount = 1

\* The stored spans whose current prompt, completion or operation_name is q.
Matching(db, q) ==
    {sp \in SpanIds :
        /\ HasSpan(db, sp)
        /\ \/ db.spans[sp].prompt = Some(q)
           \/ db.spans[sp].completion = Some(q)
           \/ db.spans[sp].operation_name = q}

\* C27: the full-text index is synchronized with the spans table:
\* SearchContent(q) returns a span if and only if the span is stored and q
\* matches its current prompt, completion or operation_name (every such span
\* when they are no more than the limit, default 20, else that many of them),
\* each once and as stored; so a deleted span is never returned, and after an
\* upsert changed a span's completion the span is found by the new text and not
\* by the old.
C27_SearchFollowsSpans ==
    call.op = "SearchContent" =>
        LET want == Matching(store, call.arg.query)
            n == IF call.arg.limit <= 0 THEN 20 ELSE call.arg.limit
        IN /\ \A k \in DOMAIN call.rows :
                 /\ call.rows[k].span_id \in want
                 /\ call.rows[k] = store.spans[call.rows[k].span_id]
                 /\ \A j \in DOMAIN call.rows : j # k => call.rows[j] # call.rows[k]
           /\ Len(call.rows) = IF Cardinality(want) < n THEN Cardinality(want) ELSE n

\* A search for the completion an upsert has just replaced: the span whose
\* completion changed is not returned, the other span, which still has that
\* completion, is.
C27_Witness ==
    /\ call.op = "SearchContent"
    /\ call.arg.query = "c"
    /\ HasSpan(store, "s1") /\ store.spans["s1"].completion = Some("d")
    /\ HasSpan(store, "s2") /\ store.spans["s2"].completion = Some("c")
    /\ Len(call.rows) = 1
    /\ call.rows[1].span_id = "s2"
    /\ call.before = store

(***************************************************************************)
(* linearRegression.                                                       *)
(***************************************************************************)
RECURSIVE Sigma(_)
Sigma(xs) == IF xs = << >> THEN 0 ELSE xs[1] + Sigma(Tail(xs))

\* The points as pairs of integers.
Xs(points) == [i \in DOMAIN points |-> points[i].timestamp.n]
Ys(points) == [i \in DOMAIN points |-> points[i].keyCount.n]

Denominator(points) ==
    Len(points) * Sigma([i \in DOMAIN points |-> Xs(points)[i] * Xs(points)[i]])
    - Sigma(Xs(points)) * Sigma(Xs(points))

\* The sum over the points of the squared distance of y from m*x + b.
SquaresFrom(points, m, b) ==
    Sum([i \in DOMAIN points |->
            LET r == RSub(Float(Ys(points)[i]), RAdd(RMul(m, Float(Xs(points)[i])), b))
            IN RMul(r, r)])

\* C30: for two or more points whose denominator n*Sxx - Sx*Sx is not zero,
\* linearRegression returns the least-squares line: slope * (n*Sxx - Sx*Sx) =
\* n*Sxy - Sx*Sy, intercept * n = Sy - slope * Sx, and R2 * SStot = SStot - SSres
\* with R2 = 1 when SStot = 0; the points (0,1),(1,3),(2,5),(3,7),(4,9) give
\* slope 2, intercept 1, R2 1 and the flat points (0,5),(1,5),(2,5),(3,5) give
\* slope 0, intercept 5, R2 1.
C30_LinearRegressionIsOLS ==
    call.op = "linearRegression" =>
        LET points == call.arg
            fit == call.rows
            n == Len(points)
            sx == Sigma(Xs(points))
            sy == Sigma(Ys(points))
            sxy == Sigma([i \in DOMAIN points |-> Xs(points)[i] * Ys(points)[i]])
            ssRes == SquaresFrom(points, fit.slope, fit.intercept)
            ssTot == SquaresFrom(points, Float(0), Rat(sy, n))
        IN /\ n >= 2 /\ Denominator(points) # 0 =>
                /\ RMul(fit.slope, Float(Denominator(points))) = Float(n * sxy - sx * sy)
                /\ RMul(fit.intercept, Float(n)) = RSub(Float(sy), RMul(fit.slope, Float(sx)))
                /\ RMul(fit.rSquared, ssTot) = RSub(ssTot, ssRes) \/ ssTot = Float(0)
                /\ ssTot = Float(0) => fit.rSquared = Float(1)
           /\ points = PerfectLine => fit = Fit(Float(2), Float(1), Float(1))
           /\ points = FlatLine => fit = Fit(Float(0), Float(5), Float(1))

\* The flat points were fitted: the total sum of squares is zero.
C30_Witness ==
    /\ call.op = "linearRegression"
    /\ call.arg = FlatLine
    /\ call.rows.rSquared = Float(1)

(***************************************************************************)
(* AnalyzeMemoryGrowth.                                                    *)
(***************************************************************************)
\* The memory events of the spans of a trace.
TraceEvents(db, traceID) ==
    {db.memory_events[e] : e \in {id \in EventIds :
        /\ HasEvent(db, id)
        /\ HasSpan(db, db.memory_events[id].span_id)
        /\ db.spans[db.memory_events[id].span_id].trace_id = traceID}}

\* events lists every event of the set once, timestamps ascending.
AscendingRun(events, set) ==
    /\ Len(events) = Cardinality(set)
    /\ {events[i] : i \in DOMAIN events} = set
    /\ \A i, j \in DOMAIN events : i < j => events[i].timestamp <= events[j].timestamp

\* The keys live after the first i events: those whose last ADD or DELETE
\* among them is an ADD.
LiveKeys(events, i) ==
    {events[j].namespace \o "." \o events[j].key : j \in {a \in 1 .. i :
        /\ events[a].operation = "ADD"
        /\ \A d \in (a + 1) .. i :
              ~(/\ events[d].operation = "DELETE"
                /\ events[d].namespace \o "." \o events[d].key
                   = events[a].namespace \o "." \o events[a].key)}}

\* One sample per event: the seconds since the first event and the number
\* of live keys.
Sampled(events, points) ==
    /\ Len(points) = Len(events)
    /\ \A i \in DOMAIN events :
          /\ RMul(points[i].timestamp, Float(Second))
             = Float(events[i].timestamp - events[1].timestamp)
          /\ points[i].keyCount = Float(Cardinality(LiveKeys(events, i)))

\* Zero growth, no regression.
ZeroGrowth(growth) ==
    /\ growth.points = << >>
    /\ growth.report.GrowthRate = Float(0)
    /\ growth.report.Slope = Float(0)
    /\ growth.report.Intercept = Float(0)
    /\ growth.report.RSquared = Float(0)
    /\ growth.report.Prediction30Min = 0
    /\ ~growth.report.IsUnbounded

\* What an analysis reports whatever the number of events.
GrowthOfTrace ==
    /\ AscendingRun(call.rows.allEvents, TraceEvents(call.before, call.arg))
    /\ call.rows.report.TotalEvents = Cardinality(TraceEvents(call.before, call.arg))
    /\ Len(call.rows.allEvents) >= 2 => Sampled(call.rows.allEvents, call.rows.points)
    /\ Len(call.rows.allEvents) < 2 => ZeroGrowth(call.rows)

\* C29 as stated: AnalyzeMemoryGrowth replays the events of the trace in
\* ascending timestamp order over the key set (ADD inserts namespace.key,
\* DELETE removes it, UPDATE changes nothing), takes one sample per event,
\* reports TotalKeys as the size of the final set and TotalEvents as the
\* number of events, and with fewer than 2 events reports zero growth and no
\* regression.
C29_TotalKeysIsFinalSetSize ==
    call.op = "AnalyzeMemoryGrowth" =>
        /\ GrowthOfTrace
        /\ call.rows.report.TotalKeys
           = Cardinality(LiveKeys(call.rows.allEvents, Len(call.rows.allEvents)))

\* C29 amended: as above for two or more events; with fewer than 2 events the
\* report has TotalKeys 0 (also when the one event is an ADD), TotalEvents the
\* number of events, zero growth and no regression.
C29_GrowthReplaysTwoOrMoreEvents ==
    call.op = "AnalyzeMemoryGrowth" =>
        /\ GrowthOfTrace
        /\ call.rows.report.TotalKeys
           = IF Len(call.rows.allEvents) < 2 THEN 0
             ELSE Cardinality(LiveKeys(call.rows.allEvents, Len(call.rows.allEvents)))

\* Three events were replayed: two keys were live after the second, a
\* DELETE left one.
C29_Witness ==
    /\ call.op = "AnalyzeMemoryGrowth"
    /\ call.rows.report.TotalEvents = 3
    /\ call.rows.points[2].keyCount = Float(2)
    /\ call.rows.allEvents[3].operation = "DELETE"
    /\ call.rows.report.TotalKeys = 1

(***************************************************************************)
(* FullAnalysis.                                                           *)
(***************************************************************************)
\* How often a warning occurs in a list of warnings.
Occurrences(warnings, w) == Cardinality({i \in DOMAIN warnings : warnings[i] = w})

\* The warning of a failed pass.
WarningOf(pass) ==
    CASE pass = "hotspots" -> "Token hotspot analysis failed"
      [] pass = "memory" -> "Memory growth analysis failed"
      [] pass = "cost" -> "Cost attribution failed"
      [] pass = "stats" -> "gathering trace stats"

\* The section a pass fills is null.
SectionNull(report, pass) ==
    CASE pass = "hotspots" -> report.TokenHotspots = << >>
      [] pass = "memory" -> report.MemoryGrowth = Null
      [] pass = "cost" -> report.CostAttribution = Null
      [] pass = "stats" -> report.Stats = Null

\* The section a pass fills holds what the pass returns on the store.
SectionFilled(report, pass, db, traceID) ==
    CASE pass = "hotspots" -> report.TokenHotspots \in DetectTokenHotspots(db, traceID)
      [] pass = "memory" ->
            report.MemoryGrowth \in {g.report : g \in AnalyzeMemoryGrowth(db, traceID)}
      [] pass = "cost" -> report.CostAttribution = AttributeCosts(db, traceID)
      [] pass = "stats" -> report.Stats = GetTraceStats(db, traceID)

\* The report of a run in which the passes of failing failed: their sections
\* are null with one warning each, the other sections are filled without one.
Downgraded(report, failing, db, traceID) ==
    /\ report # Null
    /\ \A pass \in failing :
          SectionNull(report, pass) /\ Occurrences(report.Warnings, WarningOf(pass)) = 1
    /\ \A pass \in Passes \ failing :
          /\ SectionFilled(report, pass, db, traceID)
          /\ Occurrences(report.Warnings, WarningOf(pass)) = 0
    /\ Len(report.Warnings)
       = Cardinality(failing)
         + (IF report.MemoryGrowth # Null /\ report.MemoryGrowth.IsUnbounded THEN 1 ELSE 0)
         + Cardinality({i \in DOMAIN report.TokenHotspots :
                           report.TokenHotspots[i].Severity = "high"})

\* C28 as stated: whichever of stats, hotspots, memory growth and cost fail,
\* FullAnalysis returns the report and no error, with the section of each
\* failed part null and one warning for it.
C28_FullAnalysisNeverFatal ==
    call.op = "FullAnalysis" =>
        /\ ~call.rows.err
        /\ Downgraded(call.rows.report, call.arg[2], call.before, call.arg[1])

\* C28 amended: a failure of hotspots, memory growth or cost leaves that
\* section null and appends one warning, and the report is returned with no
\* error; a failure gathering the stats is fatal: FullAnalysis returns the
\* error and no report.
C28_PassFailuresAreWarnings ==
    call.op = "FullAnalysis" =>
        IF "stats" \in call.arg[2]
        THEN call.rows.err /\ call.rows.report = Null
        ELSE /\ ~call.rows.err
             /\ Downgraded(call.rows.report, call.arg[2], call.before, call.arg[1])

\* Hotspots and cost failed and the report came back: two null sections, their
\* two warnings and the warning of the unbounded growth the third pass found.
C28_Witness ==
    /\ call.op = "FullAnalysis"
    /\ call.arg[2] = {"hotspots", "cost"}
    /\ ~call.rows.err
    /\ call.rows.report.CostAttribution = Null
    /\ call.rows.report.MemoryGrowth # Null
    /\ call.rows.report.MemoryGrowth.IsUnbounded
    /\ Len(call.rows.report.Warnings) = 3

(***************************************************************************)
(* linearRegression on degenerate inputs.                                  *)
(***************************************************************************)
\* C31: for a single point, and for any input whose denominator
\* n*Sxx - Sx*Sx is zero, linearRegression returns slope 0, the mean of the
\* y-values as intercept (the y-value itself for a single point) and R2 0.
C31_DegenerateRegression ==
    call.op = "linearRegression" =>
        LET points == call.arg
            fit == call.rows
            n == Len(points)
        IN n >= 1 /\ Denominator(points) = 0 =>
               /\ fit.slope = Float(0)
               /\ fit.intercept = Rat(Sigma(Ys(points)), n)
               /\ fit.rSquared = Float(0)

\* The same statement for two or more points, where the code has its
\* zero-denominator branch.
C31_ZeroDenominatorOfTwoOrMore ==
    call.op = "linearRegression" =>
        LET points == call.arg
            fit == call.rows
            n == Len(points)
        IN n >= 2 /\ Denominator(points) = 0 =>
               /\ fit.slope = Float(0)
               /\ fit.intercept = Rat(Sigma(Ys(points)), n)
               /\ fit.rSquared = Float(0)

(***************************************************************************)
(* buildSpanTree.                                                          *)
(***************************************************************************)
\* The positions of a span in the tree.
PositionsOf(tree, s) == {j \in DOMAIN tree : tree[j].span = s}

IdsOf(spans) == {spans[i].span_id : i \in DOMAIN spans}
IsRoot(s) == ParentID(s) = ""
IsOrphan(spans, s) == ~IsRoot(s) /\ ParentID(s) \notin IdsOf(spans)

\* Node j lies in the subtree below node p: after it, with only deeper nodes
\* in between.
InSubtree(tree, p, j) ==
    /\ p < j
    /\ \A k \in (p + 1) .. j : tree[k].depth > tree[p].depth

\* C32: buildSpanTree returns each input span exactly once; roots at depth 0;
\* a span whose parent id is not among the input spans as an orphan at depth
\* 0, also when roots exist; a child inside its parent's subtree at the
\* parent's depth + 1; and the flat depth-0 list in input order when no root
\* exists.
C32_SpanTreeKeepsEverySpan ==
    call.op = "buildSpanTree" =>
        LET spans == call.arg
            tree == call.rows
            hasRoot == \E i \in DOMAIN spans : IsRoot(spans[i])
        IN /\ Len(tree) = Len(spans)
           /\ \A i \in DOMAIN spans : Cardinality(PositionsOf(tree, spans[i])) = 1
           /\ \A j \in DOMAIN tree :
                  IsRoot(tree[j].span) \/ IsOrphan(spans, tree[j].span) => tree[j].depth = 0
           /\ hasRoot =>
                  \A j \in DOMAIN tree :
                      ~IsRoot(tree[j].span) /\ ~IsOrphan(spans, tree[j].span) =>
                          \E p \in DOMAIN tree :
                              /\ tree[p].span.span_id = ParentID(tree[j].span)
                              /\ InSubtree(tree, p, j)
                              /\ tree[j].depth = tree[p].depth + 1
           /\ ~hasRoot => tree = [i \in DOMAIN spans |-> SpanNode(spans[i], 0)]

\* The chain of parents of a span ends at a root.
RECURSIVE Rooted(_, _, _)
Rooted(spans, s, fuel) ==
    \/ IsRoot(s)
    \/ /\ fuel > 0
       /\ \E i \in DOMAIN spans :
              spans[i].span_id = ParentID(s) /\ Rooted(spans, spans[i], fuel - 1)

\* What the walk does keep: when a root exists the tree holds exactly the
\* spans whose chain of parents ends at a root, each once, the roots at depth
\* 0 and a child inside its parent's subtree one level deeper; without a
\* root it is the flat list.
C32_TreeOfRootedSpans ==
    call.op = "buildSpanTree" =>
        LET spans == call.arg
            tree == call.rows
            hasRoot == \E i \in DOMAIN spans : IsRoot(spans[i])
        IN /\ hasRoot =>
               /\ \A i \in DOMAIN spans :
                      Cardinality(PositionsOf(tree, spans[i]))
                          = IF Rooted(spans, spans[i], Len(spans)) THEN 1 ELSE 0
               /\ \A j \in DOMAIN tree :
                      IF IsRoot(tree[j].span) THEN tree[j].depth = 0
                      ELSE \E p \in DOMAIN tree :
                               /\ tree[p].span.span_id = ParentID(tree[j].span)
                               /\ InSubtree(tree, p, j)
                               /\ tree[j].depth = tree[p].depth + 1
           /\ ~hasRoot => tree = [i \in DOMAIN spans |-> SpanNode(spans[i], 0)]

(***************************************************************************)
(* The queues of the ingester.                                             *)
(***************************************************************************)
\* The queue an item of a kind is offered to, among the three given.
ChanOf(kind, t, s, m) ==
    CASE kind = "trace" -> t
      [] kind = "span" -> s
      [] kind = "mem" -> m

CapOf(kind) ==
    CASE kind = "trace" -> TraceChanCap
      [] kind = "span" -> SpanChanCap
      [] kind = "mem" -> MemoryEventChanCap

\* The store after the direct insert of an item.
DirectInsert(db, a) ==
    CASE a.kind = "trace" -> InsertTrace(db, a.row).store
      [] a.kind = "span" -> InsertSpan(db, a.row).store
      [] a.kind = "mem" -> InsertMemoryEvent(db, a.row).store

QueuesWithinCapacity ==
    /\ Len(traceChan) <= config.BatchSize
    /\ Len(spanChan) <= 2 * config.BatchSize
    /\ Len(memoryEventChan) <= 2 * config.BatchSize

\* The step of a connection task that decoded item a: the item went to the
\* end of its queue when there was room, and to the store, the queue left
\* alone, when the queue was at capacity; the task goes on either way.
OfferedOrInserted(a) ==
    LET q == ChanOf(a.kind, traceChan, spanChan, memoryEventChan)
        qAfter == ChanOf(a.kind, traceChan', spanChan', memoryEventChan')
    IN /\ Len(q) < CapOf(a.kind) => qAfter = Append(q, a.row) /\ store' = store
       /\ Len(q) >= CapOf(a.kind) => qAfter = q /\ store' = DirectInsert(store, a)
       /\ conn'[a.conn].pc = "top"

\* C33: the span and memory-event queues never hold more than 2 * BatchSize
\* items and the trace queue never more than BatchSize; a connection task
\* that decoded an item puts it on its queue when there is room and inserts
\* it directly through the store when the queue is at capacity, and in both
\* cases is back at the top of its loop in the same step: it never waits.
C33_NonBlockingBoundedEnqueue ==
    /\ []QueuesWithinCapacity
    /\ [][\A a \in accepted' \ accepted : OfferedOrInserted(a)]_vars

\* The same before Stop has closed the queues.
C33_OfferOnOpenQueues ==
    /\ []QueuesWithinCapacity
    /\ [][~chansClosed => \A a \in accepted' \ accepted : OfferedOrInserted(a)]_vars

\* An item found its queue at capacity and was inserted directly.
C33_OverflowSeen ==
    \E w \in writes : w.via = "overflow" /\ Len(traceChan) = TraceChanCap

(***************************************************************************)
(* The flush loop's buffers.                                               *)
(***************************************************************************)
\* The store after the spans sb, then the memory events mb, each non-empty
\* list handed to its batch insert.
AfterSubmit(sb, mb) ==
    LET afterSpans == IF sb # << >> THEN BatchInsertSpans(store, sb).store ELSE store
    IN IF mb # << >> THEN BatchInsertMemoryEvents(afterSpans, mb).store ELSE afterSpans

\* This step submitted the buffers sb and mb to the store and emptied both.
Submitted(sb, mb) ==
    /\ store' = AfterSubmit(sb, mb)
    /\ sb # << >> =>
          [task |-> FlushTask, op |-> "BatchInsertSpans", via |-> "flush"] \in writes'
    /\ mb # << >> =>
          [task |-> FlushTask, op |-> "BatchInsertMemoryEvents", via |-> "flush"] \in writes'
    /\ spanBuf' = << >>
    /\ memBuf' = << >>

\* A buffer joined by one item: submitted (with the other buffer) once it
\* holds BatchSize items, kept otherwise.
Buffered(buf, other, bufAfter, otherAfter, sb, mb) ==
    IF Len(buf) >= config.BatchSize THEN Submitted(sb, mb)
    ELSE bufAfter = buf /\ otherAfter = other /\ store' = store

BuffersWithinBatchSize ==
    /\ Len(spanBuf) <= config.BatchSize
    /\ Len(memBuf) <= config.BatchSize

\* C34: neither buffer of the flush loop ever holds more than BatchSize items;
\* the step that brings a buffer to BatchSize items submits it to the store;
\* a tick submits whatever the buffers hold, and so does the step in which
\* the flush loop returns, so that no item stays buffered past the next tick
\* or past the end of the loop.
C34_FlushTriggers ==
    /\ []BuffersWithinBatchSize
    /\ [][/\ (FlushSpan /\ spanChan # << >>) =>
                 LET buf == Append(spanBuf, Head(spanChan))
                 IN Buffered(buf, memBuf, spanBuf', memBuf', buf, memBuf)
          /\ (FlushMemoryEvent /\ memoryEventChan # << >>) =>
                 LET buf == Append(memBuf, Head(memoryEventChan))
                 IN Buffered(buf, spanBuf, memBuf', spanBuf', spanBuf, buf)
          /\ FlushTick => Submitted(spanBuf, memBuf)
          /\ (flushLoop = "running" /\ flushLoop' = "done") => Submitted(spanBuf, memBuf)
          /\ (spanBuf' # spanBuf \/ memBuf' # memBuf) =>
                 FlushSpan \/ FlushMemoryEvent \/ FlushTick \/ FlushCtxDone \/ FlushTrace]_vars

\* With BatchSize 2 a tick has submitted a buffer of one span and one memory
\* event while the daemon is running.
C34_Witness ==
    /\ config.BatchSize = 2
    /\ phase = "running"
    /\ [task |-> FlushTask, op |-> "BatchInsertSpans", via |-> "flush"] \in writes
    /\ [task |-> FlushTask, op |-> "BatchInsertMemoryEvents", via |-> "flush"] \in writes
    /\ spanBuf = << >> /\ spanChan = << >>
    /\ memBuf = << >> /\ memoryEventChan = << >>
    /\ metrics.SpansIngested = 1
    /\ metrics.MemoryEvents = 1

(***************************************************************************)
(* The order of the flush loop.                                            *)
(***************************************************************************)
\* The store with the span tables of this step's successor state: where the
\* flush closure stands between its two batch inserts.
BetweenInserts == [store EXCEPT !.spans = store'.spans, !.spans_fts = store'.spans_fts]

\* One step seen from a queue and its buffer, pending being the buffer
\* followed by the queue, i.e. the enqueued items not yet submitted, oldest
\* first: the step leaves pending alone (also when it moves the queue's head
\* to the end of the buffer), or adds one item at its end, or submits a batch
\* that is a prefix of pending holding at least the whole buffer, which
\* leaves the table as the batch insert of that prefix, in that order, does.
InEnqueueOrder(kind, buf, chan, bufAfter, chanAfter) ==
    LET pending == buf \o chan
        pendingAfter == bufAfter \o chanAfter
        tableAfter == IF kind = "span" THEN store'.spans ELSE store'.memory_events
        Table(batch) ==
            IF kind = "span" THEN BatchInsertSpans(store, batch).store.spans
            ELSE BatchInsertMemoryEvents(BetweenInserts, batch).store.memory_events
    IN \/ /\ pendingAfter = pending
          /\ bufAfter = buf \/ (chan # << >> /\ bufAfter = Append(buf, Head(chan)))
       \/ /\ Len(pendingAfter) = Len(pending) + 1
          /\ SubSeq(pendingAfter, 1, Len(pending)) = pending
          /\ bufAfter = buf
       \/ \E k \in 1 .. Len(pending) :
             /\ k >= Len(buf)
             /\ k <= Len(buf) + 1
             /\ bufAfter = << >>
             /\ chanAfter = SubSeq(pending, k + 1, Len(pending))
             /\ tableAfter = Table(SubSeq(pending, 1, k))

\* C35: the flush loop keeps the enqueue order. Spans leave the queue from its
\* head to the end of the buffer, a flushed batch is the oldest pending spans
\* in the order they were enqueued, and so no span is submitted in a later
\* batch than a span enqueued after it; the same for memory events.
C35_FlushKeepsEnqueueOrder ==
    [][/\ InEnqueueOrder("span", spanBuf, spanChan, spanBuf', spanChan')
       /\ InEnqueueOrder("mem", memBuf, memoryEventChan, memBuf', memoryEventChan')]_vars

\* The two states of span s1 were enqueued in that order and flushed as one
\* batch: the stored row has the fields of the second.
C35_Witness ==
    /\ config.BatchSize = 2
    /\ metrics.SpansIngested = 2
    /\ metrics.BatchesCommitted = 1
    /\ \A w \in writes : w.via = "flush"
    /\ spanBuf = << >> /\ spanChan = << >>
    /\ HasSpan(store, "s1")
    /\ store.spans["s1"].status = "error"

(***************************************************************************)
(* Two messages of one connection for the same key.                        *)
(***************************************************************************)
\* The stored row of span s1 carries the updatable columns of the row sp.
ReflectsSpan(sp) ==
    /\ store.spans["s1"].duration_ms = sp.duration_ms
    /\ store.spans["s1"].completion = Coalesce(sp.completion, store.spans["s1"].completion)
    /\ store.spans["s1"].completion_tokens = sp.completion_tokens
    /\ store.spans["s1"].status = sp.status
    /\ store.spans["s1"].error_message = sp.error_message

\* Once nothing is queued or buffered, a row that one connection sent twice
\* shows what the later message carried.
LaterMessageWins ==
    (phase = "running" /\ Quiescent) =>
        \A c \in Conns :
            /\ (Sent(c, "trace", TraceBegun) /\ Sent(c, "trace", TraceEnded)
                   /\ HasTrace(store, "t1"))
                   => store.traces["t1"].status = TraceEnded.status
            /\ (Sent(c, "span", SpanBegun) /\ Sent(c, "span", SpanEnded)
                   /\ HasSpan(store, "s1"))
                   => ReflectsSpan(SpanEnded)

\* C38: when one connection sends two TRACE messages with the same trace_id,
\* or two SPAN messages with the same span_id, the row finally stored has the
\* updatable fields of the later message, in every interleaving, also when
\* the earlier message was enqueued and the later one was inserted directly
\* because its queue was full.
C38_LastWriterWinsPerConnection == LaterMessageWins

\* The same for the runs in which no message found its queue full.
C38_LastWriterWinsWhenQueued ==
    (\A w \in writes : w.via # "overflow") => LaterMessageWins

(***************************************************************************)
(* ErrorCount.                                                             *)
(***************************************************************************)
\* replayPending gave up on a payload in this step: it did not decode, or
\* its processBatch returned an error.
ReplayFailure ==
    /\ Len(replayed') = Len(replayed) + 1
    /\ ~replayed'[Len(replayed')].ok

\* processMessage returned an error to handleConnection in this step: the
\* message was acknowledged, nothing went onto a queue and no counter of
\* ingested items or committed batches moved.
ProcessMessageFailed(c) ==
    /\ Len(conn'[c].acks) = Len(conn[c].acks) + 1
    /\ NothingIngested
    /\ metrics'.BatchesCommitted = metrics.BatchesCommitted

\* handleConnection gave up inside a frame: the length or the payload could
\* not be read, or the declared length is above the cutoff.
FramingError(c) == (\E len \in FrameLens : ConnOversize(c, len)) \/ ConnShortRead(c)

\* The batch inserts of one flush() call on the buffers sb and mb that fail.
FlushErrors(sb, mb) ==
    (IF sb # << >> /\ BatchInsertSpans(store, sb).err THEN 1 ELSE 0)
    + (IF mb # << >> /\ BatchInsertMemoryEvents(AfterSubmit(sb, << >>), mb).err THEN 1 ELSE 0)

\* The errors this step logs.
ErrorsLogged ==
    CASE ReplayFailure -> 1
      [] \E c \in Conns : FramingError(c) -> 1
      [] \E c \in Conns : ProcessMessageFailed(c) -> 1
      [] FlushTrace /\ traceChan # << >> ->
            IF InsertTrace(store, Head(traceChan)).err THEN 1 ELSE 0
      [] FlushSpan /\ spanChan # << >> ->
            IF Len(spanBuf) + 1 >= config.BatchSize
            THEN FlushErrors(Append(spanBuf, Head(spanChan)), memBuf) ELSE 0
      [] FlushMemoryEvent /\ memoryEventChan # << >> ->
            IF Len(memBuf) + 1 >= config.BatchSize
            THEN FlushErrors(spanBuf, Append(memBuf, Head(memoryEventChan))) ELSE 0
      [] FlushTick \/ FlushCtxDone \/ FlushTrace \/ FlushSpan \/ FlushMemoryEvent ->
            FlushErrors(spanBuf, memBuf)
      [] OTHER -> 0

\* C36: ErrorCount grows by exactly one for each error logged along the
\* ingestion path (a frame that cannot be read to its end or is oversize, a
\* message that does not decode or has an unknown type, a failing store write
\* of a direct insert, of the flush loop's trace insert or of a flushed batch,
\* a pending payload whose replay fails) and by nothing else.
C36_ErrorCountCoversErrors ==
    [][metrics'.ErrorCount = metrics.ErrorCount + ErrorsLogged]_vars

\* The same for the steps after replay.
C36_ErrorCountAfterReplay ==
    [][phase # "replay" => metrics'.ErrorCount = metrics.ErrorCount + ErrorsLogged]_vars

\* Until the listener is open no error has been counted.
C36_ReplayCountsNothing == phase \in {"new", "replay"} => metrics.ErrorCount = 0

(***************************************************************************)
(* Stop.                                                                   *)
(***************************************************************************)
\* C37: once Stop has been called on a started daemon it returns: the accept
\* loop, the flush loop and every connection task exit, also the task of a
\* connection that is open and idle, waiting for the type byte of its next
\* message. (A run in which the process ends in a panic is not held against
\* the statement here.)
C37_StopReturns == (phase = "stopping") ~> (phase \in {"stopped", "panicked"})

\* Stop returns when no connection task is waiting for a type byte.
C37_StopReturnsWithoutIdleConnection ==
    (phase = "stopping" /\ \A c \in Conns : conn[c].pc # "reading") ~> (phase = "stopped")

\* Stop does not return while a connection task waits for a type byte.
C37_StopWaitsForReaders ==
    phase = "stopped" => \A c \in Conns : conn[c].pc \in {"unborn", "closed"}

(***************************************************************************)
(* Replay of a payload whose batch was committed before the crash.         *)
(***************************************************************************)
\* Every row of the batch is in the store as the batch holds it.
AllStored(b) ==
    /\ \A k \in DOMAIN b.traces :
          HasTrace(store, b.traces[k].trace_id) /\ store.traces[b.traces[k].trace_id] = b.traces[k]
    /\ \A k \in DOMAIN b.spans :
          HasSpan(store, b.spans[k].span_id) /\ store.spans[b.spans[k].span_id] = b.spans[k]
    /\ \A k \in DOMAIN b.memory_events :
          /\ HasEvent(store, b.memory_events[k].event_id)
          /\ store.memory_events[b.memory_events[k].event_id] = b.memory_events[k]
    /\ \A k \in DOMAIN b.tool_calls : b.tool_calls[k] \in Range(store.tool_calls)

\* A step of the replay of such a payload: the four tables stay as they are,
\* the payload's replay does not fail, and when it ends the payload is marked
\* committed.
ReplayedInPlace ==
    /\ store'.traces = store.traces
    /\ store'.spans = store.spans
    /\ store'.memory_events = store.memory_events
    /\ store'.tool_calls = store.tool_calls
    /\ ~ReplayFailure
    /\ Len(replayed') = Len(replayed) + 1 =>
           store'.pending_writes[replayed'[Len(replayed')].id].status = "committed"

\* C39: when the rows of a pending payload are already in the store (the
\* crash came between the batch's commit and the marking of its pending row),
\* replay marks the payload committed and leaves the rows of the store as they
\* were: no duplicate row, no payload left pending.
C39_ReplayIdempotent ==
    [][(phase = "replay" /\ replay.bp # NoBatch /\ AllStored(replay.bp.batch))
          => ReplayedInPlace]_vars

\* The same for the payloads that hold traces and spans only.
C39_ReplayOfUpsertsIdempotent ==
    [][(/\ phase = "replay" /\ replay.bp # NoBatch /\ AllStored(replay.bp.batch)
        /\ replay.bp.batch.memory_events = << >>
        /\ replay.bp.batch.tool_calls = << >>)
          => ReplayedInPlace]_vars

(***************************************************************************)
(* Replay and live ingestion.                                              *)
(***************************************************************************)
\* Nothing of live ingestion has happened: no listener and no flush loop, no
\* connection, no message read, decoded, enqueued or written.
NoIngestionYet ==
    /\ flushLoop = "idle"
    /\ acceptLoop = "idle"
    /\ \A c \in Conns : conn[c] = NoConn
    /\ accepted = {}
    /\ Quiescent
    /\ budget = MaxBatchMsgs
    /\ \A w \in writes : w.task = StartTask

ReplayOver ==
    /\ replay.bp = NoBatch
    /\ replay.idx > Len(replay.list)
    /\ Len(replayed) = Len(replay.list)

\* C40: Start goes through the whole pending-write log before it opens the
\* listener and starts the flush loop: while replay is in progress no client
\* message is read, decoded, enqueued or written, and once the daemon is
\* running replay writes nothing more, so replayed rows and rows of live
\* connections are never interleaved.
C40_ReplayPrecedesIngestion ==
    /\ [](phase \in {"new", "replay"} => NoIngestionYet)
    /\ [](ReplayDone => ReplayOver)
    /\ [][ReplayDone =>
             /\ replayed' = replayed
             /\ \A w \in writes' \ writes : w.task # StartTask]_vars

\* The daemon replayed a payload at startup and then committed a batch of a
\* live connection.
C40_Witness ==
    /\ phase = "running"
    /\ \E k \in DOMAIN replayed : replayed[k].ok
    /\ \E w \in writes : w.task = StartTask
    /\ \E w \in writes : w.task.kind = "conn"
    /\ metrics.BatchesCommitted = 2

====
